---- MODULE Spec2Model ----
(***************************************************************************)
(* Model of the Solana arbitrage bot's scan scheduler (src/src/index.js,   *)
(* src/src/ws-monitor.js) and of the live trade execution engine           *)
(* (src/src/live-trader.js).                                               *)
(*                                                                         *)
(* The specifications of the module:                                       *)
(*   Spec        the scheduler: start(), the WebSocket monitor, the        *)
(*               debounce and fallback timers, scanAndTrade() invocations  *)
(*               and stop();                                               *)
(*   TraderSpec  LiveTrader.executeTrade step by step, _recordLoss and the *)
(*               UTC day boundary;                                         *)
(*   SweepSpec   executeTrade interleaved with the wallet auto-sell;       *)
(*   SizingSpec  _calcTradeAmount over a range of balances;                *)
(*   DetectorSpec  ArbitrageDetector.findArbitrageOpportunities            *)
(*               (src/src/arbitrage.js) applied to bounded price lists;    *)
(*   FetchSpec   ArbitrageDetector.fetchAllPrices over the answers of its  *)
(*               two price sources;                                        *)
(*   LoopSpec    the trading loop of one scanAndTrade pass.                *)
(*                                                                         *)
(* Time is kept relative: a timer is the number of milliseconds left until *)
(* it fires, now - lastScanAt is a counter capped at the cooldown.  The    *)
(* three-minute fallback timer is kept as a handle state only; it may fire *)
(* at any moment at which it is pending (the duration of a scan is not     *)
(* bounded by the code: connection.getBalance has no timeout and one       *)
(* executeTrade can spend several minutes in confirmation polling).        *)
(***************************************************************************)
EXTENDS Integers, Sequences, FiniteSets, TLC

\* ---------------------------------------------------------------- constants

DEBOUNCE_MS == 150
MIN_SCAN_INTERVAL_MS == 8000
NumDexPrograms == 4

\* ------------------------------------------------------------------- bounds

\* scanAndTrade invocations allowed to overlap in the model
MaxInFlight == 2
\* push signals coalesced into one pending debounce timer
MaxBurst == 2
\* reconnect attempts counted
MaxReconnect == 2
\* granularity of the clock: half a debounce window, a full one, a cooldown
TickSteps == {75, DEBOUNCE_MS, MIN_SCAN_INTERVAL_MS}

NoTimer == 0 - 1
Origins == {"boot", "push", "fallback"}

\* ---- live-trader.js / config.js; money is in thousandths of a dollar,
\* ---- profit thresholds in basis points
startingCapital == 20000
maxTradeAmountUsd == 10000
minProfitAbsolute == 170
maxDailyLossUsd == 2000
minProfitPercent == 167
raisedMinProfitPct == 100
failureThreshold == 3
sellRetryCount == 3
\* live-trader.js MAX_RETRIES: attempts of one _submitSwap call
MAX_RETRIES == 2
\* config.slippageTolerance '0.04', in 1/10000
defaultSlippageTolerance == 400
\* arbitrage.js line 50: price points older than this many ms are skipped
StalenessWindowMs == 10000
\* config.solGasReserve (0.01 SOL), in 1/1000 SOL
solGasReserve == 10
\* config.dustUsd and config.cleanupMinUsd ($0.50)
dustUsd == 500
cleanupMinUsd == 500

\* executeTrade calls per run
MaxCalls == 3
\* UTC days the clock runs through
MaxDay == 1
\* cap of the tally fed to _recordLoss
MaxLossTally == 3000
\* losses fed directly to _recordLoss
LossAmounts == {1000, 2000}
\* balances init() may seed from the wallet
InitBalances == {0, startingCapital}
\* monitored pairs offered to executeTrade
Pairs == {"RAY/SOL", "BONK/SOL"}
\* slippage-adjusted scan prices of an opportunity
OppBuyPrices == {100}
OppSellPrices == {101, 105}
\* realSellUsd - realBuyUsd as the two live quotes may give it
RealProfits == {0 - 200, 0, 120, 200}
\* wallet balances in 1/1000 SOL: below the reserve, just short of reserve
\* plus a full-size trade at 100 USD per SOL, exactly enough for it
SolBalances == {9, 109, 110}
\* SOL price in USD: 0 is what _fetchSolPrice returns when the price API
\* fails and nothing is cached
SolPrices == {0, 100}
\* transactions the wallet auto-sell may send per run
MaxSweepSends == 2
\* what a wallet token's sell quote pays out, in 1/1000 SOL
SweepQuotes == {4, 5, 30}

Min(a, b) == IF a < b THEN a ELSE b

VARIABLES
  \* --- process
  alive,             \* the node process is running
  \* --- SolanaArbitrageBot (index.js)
  started,           \* start() has run up to the boot scan
  running,           \* this.running
  scanning,          \* this.scanning
  fallbackTimer,     \* this.fallbackTimer: "null", "pending" or "fired"
  inflight,          \* scanAndTrade() invocations not yet settled, by trigger
  \* --- WSMonitor (ws-monitor.js)
  wsMode,            \* config.heliusRpcUrl: "off" (unset), "ok", "bad" (connect throws)
  wsRunning,         \* WSMonitor.running
  subs,              \* live onLogs subscriptions
  removing,          \* WSMonitor.stop() is inside its removal loop
  debounceLeft,      \* ms until this.debounceTimer fires, NoTimer when none is pending
  sinceLastScan,     \* Date.now() - this.lastScanAt, capped at MIN_SCAN_INTERVAL_MS
  reconnectPending,  \* a _scheduleReconnect timer is pending
  reconnectAttempts, \* this.reconnectAttempts
  \* --- history (not program state)
  stopped,           \* stop() has been called
  sinceSignal,       \* ms since the last accepted push signal, capped at DEBOUNCE_MS
  burst,             \* signals coalesced into the latest debounce timer
  armedMidScan,      \* the last accepted signal arrived while a scan was in flight
  ev,                \* the handler that ran last
  \* --- LiveTrader (live-trader.js)
  dryRun,            \* this.dryRun (config.dryRun)
  alertQuoteDiff,    \* process.env.ALERT_QUOTE_DIFF_USD is a positive number
  balance,           \* this.balance
  halted,            \* this._halted
  dailyLoss,         \* this._dailyLoss
  dailyLossReset,    \* this._dailyLossReset, as the index of a UTC day
  today,             \* the UTC day Date.now() falls in
  sellFailureCounts, \* this._sellFailureCounts
  trades,            \* rows of the ledger's trades table
  snapshot,          \* latest row of the ledger's balance table
  call,              \* the executeTrade invocation in progress, then its outcome
  calls,             \* executeTrade invocations so far
  walletSol,         \* connection.getBalance(wallet), in 1/1000 SOL
  solPriceUsd,       \* what _fetchSolPrice returns, in USD per SOL
  residualSol,       \* what a sell quote pays for a token left in the wallet
  sweepSends,        \* transactions the wallet auto-sell has sent (history)
  \* --- ArbitrageDetector (arbitrage.js) and its configuration
  slippageTolerance, \* config.slippageTolerance, in 1/10000
  minThreshold,      \* config.minProfitPercent * 100, in 1/100 of a percent
  prices,            \* the price points of one token, as fetchAllPrices returned them
  opportunities,     \* what findArbitrageOpportunities returned for them
  found,             \* findArbitrageOpportunities has run on prices
  nearMiss,          \* its near-miss alert: webhook configured, posts made, threw
  fetch,             \* one fetchAllPrices(token) call: remote replies, outcome
  tradeLoop,         \* the trading loop of one scanAndTrade pass
  jupCache,          \* JupiterDexQuotes: this.cache, getPrices calls in flight
  overlap,           \* executeTrade invocations of overlapping scans at their last await
  swap               \* the _submitSwap calls of one live executeTrade, attempt by attempt

schedVars == <<alive, started, running, scanning, fallbackTimer, inflight,
               wsMode, wsRunning, subs, removing, debounceLeft, sinceLastScan,
               reconnectPending, reconnectAttempts,
               stopped, sinceSignal, burst, armedMidScan>>

traderVars == <<dryRun, alertQuoteDiff, balance, halted, dailyLoss,
                dailyLossReset, today, sellFailureCounts, trades, snapshot,
                call, calls, walletSol, solPriceUsd, residualSol, sweepSends>>

detectorVars == <<slippageTolerance, minThreshold, prices, opportunities, found,
                  nearMiss>>

scanVars == <<fetch, tradeLoop, jupCache, overlap, swap>>

vars == <<schedVars, traderVars, detectorVars, scanVars, ev>>

TotalInFlight == inflight["boot"] + inflight["push"] + inflight["fallback"]

\* ------------------------------------------------------- index.js helpers

\* _resetFallbackTimer: clearTimeout on the old handle, then a new pending timer
ResetFallbackTimer(old) == "pending"

\* stop(): if (this.fallbackTimer) clearTimeout(this.fallbackTimer)
ClearFallbackTimer(old) == IF old = "pending" THEN "fired" ELSE old

OnSwapEventNeverDrops(scn) == FALSE

\* _onSwapEvent line 59: if (this.scanning) return
OnSwapEventDrops(scn) == scn

\* scanAndTrade entry: this.scanning = true, the invocation is in flight
BeginScan(o) ==
  /\ scanning' = TRUE
  /\ inflight' = [inflight EXCEPT ![o] = @ + 1]

\* ----------------------------------------------------- ws-monitor.js helpers

NoCooldown(since) == FALSE

\* debounce callback line 93: if (now - this.lastScanAt < MIN_SCAN_INTERVAL_MS) return
InCooldown(since) == since < MIN_SCAN_INTERVAL_MS

KeepDebounce(left) == IF left = NoTimer THEN DEBOUNCE_MS ELSE left

\* _onLogs lines 90-97: clearTimeout(old); setTimeout(..., DEBOUNCE_MS)
RestartDebounce(left) == DEBOUNCE_MS

\* WSMonitor.start(): outcome of the connect-and-subscribe block
WSStart ==
  CASE wsMode = "off" ->
         /\ wsRunning' = FALSE
         /\ UNCHANGED <<subs, reconnectPending, reconnectAttempts>>
    [] wsMode = "ok" ->
         /\ subs' = NumDexPrograms
         /\ wsRunning' = TRUE
         /\ reconnectAttempts' = 0
         /\ UNCHANGED reconnectPending
    [] wsMode = "bad" ->
         /\ reconnectAttempts' = Min(reconnectAttempts + 1, MaxReconnect)
         /\ reconnectPending' = TRUE
         /\ UNCHANGED <<wsRunning, subs>>


\* ----------------------------------------------------- live-trader.js helpers

HaltedNeverSkips(h) == FALSE

\* executeTrade line 137: if (this._halted) return null
HaltedSkips(h) == h

CalcTradeAmountHardCapOnly(bal, opp) ==
  IF maxTradeAmountUsd * (opp.sellPrice - opp.buyPrice) < minProfitAbsolute * opp.buyPrice
    THEN 0
    ELSE maxTradeAmountUsd

\* _calcTradeAmount: min(hard cap, 95% of the balance), 0 when the estimated
\* profit (tradeAmount * (sellPrice - buyPrice) / buyPrice) is below the floor
CalcTradeAmount(bal, opp) ==
  LET tradeAmount == Min(maxTradeAmountUsd, (bal * 95) \div 100)
  IN IF tradeAmount * (opp.sellPrice - opp.buyPrice) < minProfitAbsolute * opp.buyPrice
       THEN 0
       ELSE tradeAmount

GetEffectiveAboveThreshold(counts, pair) ==
  IF counts[pair] > failureThreshold THEN raisedMinProfitPct ELSE minProfitPercent

\* _getEffectiveMinProfitPercent(pair), in basis points
GetEffectiveMinProfitPercent(counts, pair) ==
  IF counts[pair] >= failureThreshold THEN raisedMinProfitPct ELSE minProfitPercent

QuotePositiveSuffices(realProfit, realBuyUsd, effectiveMinProfit) ==
  realProfit <= 0

\* executeTrade line 180: realProfit <= 0 || realProfitPct < effectiveMinProfit * 100
QuoteUnprofitable(realProfit, realBuyUsd, effectiveMinProfit) ==
  \/ realProfit <= 0
  \/ realProfit * 10000 < effectiveMinProfit * realBuyUsd

\* what _simulateSwap(quote, label) may answer: the leg passes or fails
SimulateSwapResults == BOOLEAN

EitherSimulationPassed(buySimOk, sellSimOk) == buySimOk \/ sellSimOk

\* executeTrade line 189, negated: the trade goes on past the simulations
SimulationsPassed(buySimOk, sellSimOk) == buySimOk /\ sellSimOk

IncAllFailures(counts, pair) == [p \in DOMAIN counts |-> counts[p] + 1]

\* executeTrade line 222: this._sellFailureCounts[pairKey] = (... || 0) + 1
IncSellFailure(counts, pair) == [counts EXCEPT ![pair] = @ + 1]

\* executeTrade lines 246-247: a truthy counter is set back to 0
ClearSellFailure(counts, pair) == [counts EXCEPT ![pair] = 0]

BreakerTripsAbove(tally) == tally > maxDailyLossUsd

\* _recordLoss line 621: this._dailyLoss >= config.maxDailyLossUsd
BreakerTrips(tally) == tally >= maxDailyLossUsd

AfterLossNeverResets(amount) ==
  [dailyLoss      |-> dailyLoss + amount,
   dailyLossReset |-> dailyLossReset,
   halted         |-> IF BreakerTrips(dailyLoss + amount) THEN TRUE ELSE halted]

\* _recordLoss(amount): lazy reset at the day boundary, tally, latch
AfterLoss(amount) ==
  LET rolled == today >= dailyLossReset
      tally  == (IF rolled THEN 0 ELSE dailyLoss) + amount
  IN [dailyLoss      |-> tally,
      dailyLossReset |-> IF rolled THEN today + 1 ELSE dailyLossReset,
      halted         |-> IF BreakerTrips(tally) THEN TRUE ELSE halted]

GasReserveOnly(sol, amountUsd, price) == sol < solGasReserve

\* _assertGasReserve lines 600-612: solBalance < solGasReserve + tradeSol,
\* tradeSol being tradeAmountUsd / solPriceUsd, or 0 when the price is not
\* positive (compared here after multiplying by the price)
GasReserveShort(sol, amountUsd, price) ==
  IF price > 0 THEN (sol - solGasReserve) * price < amountUsd
               ELSE sol < solGasReserve

\* usdToLamports (lines 47-49): Math.floor(usd / solPriceUsd * 1e9) is a
\* lamport amount only for a positive price; at price 0 it is Infinity, an
\* amount no quote is returned for
QuotableLamports(price) == price > 0

BuyNeverAborts(tx) == FALSE

\* executeTrade line 198: if (!buyTxId) throw, caught at line 314
BuyAborts(tx) == ~tx

\* _submitSwap (lines 409-443): transactions one call hands to
\* sendRawTransaction.  Each of its MAX_RETRIES attempts fetches, signs and
\* sends a new transaction; an attempt fails before the send (swap API or
\* preflight error) or after it (not confirmed in time, on-chain error).  A
\* call that returns a signature has sent at least the confirmed one.
SwapSends(ok) == IF ok THEN 1..MAX_RETRIES ELSE 0..MAX_RETRIES

SweepDryRunSubmits(dry) == FALSE

\* _processAutoSell lines 540-544: if (this.dryRun) { notify; return }
SweepDryRunReturns(dry) == dry

SweepSkipsOnlyWorthless(usdValue) == usdValue <= 0

\* _scanWalletTokens lines 513 and 519: the token is left in the wallet
SweepSkips(usdValue) == usdValue < dustUsd \/ usdValue < cleanupMinUsd

\* calls explored: MaxCalls, and one more on a pair whose counter has reached
\* the failure threshold
CallAllowed(n, counts, pair) ==
  \/ n < MaxCalls
  \/ n = MaxCalls /\ counts[pair] >= failureThreshold

NoAlerts == [adaptive |-> 0, partial |-> 0, revert |-> 0, discrepancy |-> 0]

\* the bookkeeping of one executeTrade invocation
NewCall(opp) ==
  [pc |-> "idle", pair |-> opp.pair, buyPrice |-> opp.buyPrice,
   sellPrice |-> opp.sellPrice, amount |-> 0, realProfit |-> 0,
   buySimOk |-> FALSE, sellSimOk |-> FALSE, buyTx |-> FALSE, sellTx |-> FALSE,
   attemptSell |-> 0, quotes |-> 0, sims |-> 0, buySubmits |-> 0,
   sellSubmits |-> 0, sellSends |-> 0, required |-> 0,
   alerts |-> NoAlerts, result |-> "none"]

Opportunities ==
  [pair : Pairs, buyPrice : OppBuyPrices, sellPrice : OppSellPrices]

\* return null: the invocation ends, nothing else is touched
ReturnNull(c) ==
  /\ call' = [c EXCEPT !.pc = "idle", !.result = "null"]
  /\ UNCHANGED <<balance, halted, dailyLoss, dailyLossReset, trades, snapshot>>

\* the invocation goes on to its next await
Continue(c) ==
  /\ call' = c
  /\ UNCHANGED <<balance, halted, dailyLoss, dailyLossReset, trades, snapshot>>

SnapshotReadEarly(seen, latest) == seen

\* line 305, queries.js 5-7: getCurrentBalance() runs in step 6 itself, after
\* the last await of executeTrade, and returns the row written last
SnapshotRead(seen, latest) == latest

\* executeTrade step 6 (lines 262-312): balance, circuit breaker, optional
\* discrepancy alert, recordTrade, updateBalance, return trade; the step has
\* no await.  balanceRecord is what getCurrentBalance() returned
SettleFrom(c, disc, balanceRecord) ==
  LET risk == IF c.realProfit < 0
                THEN AfterLoss(0 - c.realProfit)
                ELSE [dailyLoss |-> dailyLoss, dailyLossReset |-> dailyLossReset,
                      halted |-> halted]
  IN /\ disc => alertQuoteDiff
     /\ balance' = balance + c.realProfit
     /\ dailyLoss' = risk.dailyLoss
     /\ dailyLossReset' = risk.dailyLossReset
     /\ halted' = risk.halted
     /\ trades' = Append(trades, [pair |-> c.pair, amount |-> c.amount,
                                  profitUsd |-> c.realProfit, buyTx |-> c.buyTx,
                                  sellTx |-> c.sellTx, simulated |-> dryRun])
     /\ snapshot' = [balance |-> balance + c.realProfit,
                     totalTrades |-> balanceRecord.totalTrades + 1,
                     winningTrades |-> balanceRecord.winningTrades
                                         + (IF c.realProfit > 0 THEN 1 ELSE 0),
                     totalProfit |-> balanceRecord.totalProfit + c.realProfit]
     /\ call' = [c EXCEPT !.pc = "idle", !.result = "trade",
                          !.alerts.discrepancy = IF disc THEN 1 ELSE 0]

\* step 6 of the one invocation the trader specifications follow
Settle(c, disc) == SettleFrom(c, disc, SnapshotRead(snapshot, snapshot))

\* --------------------------------------------------------------------- Init

\* the scheduler after construction (index.js 14-25, ws-monitor.js 28-38)
SchedInit ==
  /\ alive = TRUE
  /\ started = FALSE
  /\ running = FALSE
  /\ scanning = FALSE
  /\ fallbackTimer = "null"
  /\ inflight = [o \in Origins |-> 0]
  /\ wsRunning = FALSE
  /\ subs = 0
  /\ removing = FALSE
  /\ debounceLeft = NoTimer
  /\ sinceLastScan = MIN_SCAN_INTERVAL_MS
  /\ reconnectPending = FALSE
  /\ reconnectAttempts = 0
  /\ stopped = FALSE
  /\ sinceSignal = DEBOUNCE_MS
  /\ burst = 0
  /\ armedMidScan = FALSE
  /\ ev = "new"

\* no fetchAllPrices call and no trading loop has run yet
\* jupiter-dex-quotes.js line 34
CACHE_TTL_MS == 2000
\* symbols getPrices is asked for: two of config.tokens and one it does not list
CacheTokens == {"RAY", "BONK", "WIF"}
\* config.tokens (config lines 74-82), as far as CacheTokens goes
GetTokenMint(symbol) == symbol \in {"RAY", "BONK"}
NoEntry == [ts |-> 0 - 1, prices |-> <<>>]

\* new JupiterDexQuotes() (lines 37-39): an empty cache.  An entry holds
\* Date.now() - ts, capped at CACHE_TTL_MS, and the cached list; last is the
\* latest getPrices call, cleared says that invalidateAll ran since the
\* token's latest call (history)
NewJupCache ==
  [cache    |-> [t \in CacheTokens |-> NoEntry],
   inflight |-> [t \in CacheTokens |-> 0],
   cleared  |-> [t \in CacheTokens |-> FALSE],
   last     |-> [token |-> "RAY", hit |-> FALSE, queried |-> FALSE,
                 prices |-> <<>>]]

\* no _submitSwap call yet: leg is the executeTrade leg that called it,
\* attempt the loop variable of line 409, attemptSell that of line 203, polls
\* the getSignatureStatus calls of the current _confirmTx, buySent and
\* sellSent the transactions sendRawTransaction accepted (history), sig
\* what the latest call returned
NewSwap ==
  [pc |-> "idle", leg |-> "none", attempt |-> 0, attemptSell |-> 0, polls |-> 0,
   buySent |-> 0, sellSent |-> 0, sig |-> FALSE]

ScanFields ==
  /\ fetch = [state |-> "new", replies |-> <<>>,
              secondary |-> [ok |-> FALSE, pools |-> <<>>],
              threw |-> FALSE, prices |-> <<>>]
  /\ tradeLoop = [pc |-> "new", found |-> <<>>, sorted |-> <<>>, handed |-> <<>>,
                  executing |-> 0]
  /\ jupCache = NewJupCache
  /\ overlap = <<>>
  /\ swap = NewSwap

\* the trader after construction (live-trader.js 58-86)
TraderFields ==
  /\ ScanFields
  /\ sweepSends = 0
  /\ halted = FALSE
  /\ dailyLoss = 0
  /\ today = 0
  /\ dailyLossReset = 1
  /\ sellFailureCounts = [p \in Pairs |-> 0]
  /\ trades = <<>>
  /\ snapshot = [balance |-> startingCapital, totalTrades |-> 0,
                 winningTrades |-> 0, totalProfit |-> 0]
  /\ call = NewCall([pair |-> "RAY/SOL", buyPrice |-> 100, sellPrice |-> 100])
  /\ calls = 0

\* the detector before its first scan, under the shipped configuration
DetectorFields ==
  /\ slippageTolerance = defaultSlippageTolerance
  /\ minThreshold = minProfitPercent
  /\ prices = <<>>
  /\ opportunities = <<>>
  /\ found = FALSE
  \* config.discordWebhook defaults to the empty string (config line 17)
  /\ nearMiss = [webhook |-> FALSE, posts |-> 0, threw |-> FALSE]

Init ==
  /\ SchedInit
  /\ wsMode \in {"off", "ok", "bad"}
  /\ TraderFields
  /\ DetectorFields
  /\ dryRun = TRUE
  /\ alertQuoteDiff = FALSE
  /\ balance = startingCapital
  /\ walletSol = 110
  /\ solPriceUsd = 100
  /\ residualSol = 30

\* the trader after construction and init(): the configuration is any, the
\* balance is what init() read from the wallet
TraderInit ==
  /\ SchedInit
  /\ wsMode = "off"
  /\ TraderFields
  /\ DetectorFields
  /\ dryRun \in BOOLEAN
  /\ alertQuoteDiff \in BOOLEAN
  /\ balance \in InitBalances
  /\ walletSol \in SolBalances
  /\ solPriceUsd \in SolPrices
  /\ residualSol = 30

\* ------------------------------------------------------------------ actions

\* start(): running = true, wsMonitor.start(), _resetFallbackTimer(), boot scan
Start ==
  /\ alive /\ ~started
  /\ started' = TRUE
  /\ running' = TRUE
  /\ WSStart
  /\ fallbackTimer' = ResetFallbackTimer(fallbackTimer)
  /\ BeginScan("boot")
  /\ ev' = "Start"
  /\ UNCHANGED <<traderVars, detectorVars, scanVars>>
  /\ UNCHANGED <<alive, wsMode, removing, debounceLeft, sinceLastScan,
                 stopped, sinceSignal, burst, armedMidScan>>

\* WSMonitor._onLogs(dexName, logResult)
OnLogs(err) ==
  /\ alive /\ subs > 0
  /\ debounceLeft = NoTimer \/ burst < MaxBurst
  /\ ev' = "OnLogs"
  /\ UNCHANGED <<traderVars, detectorVars, scanVars>>
  /\ IF err
       THEN UNCHANGED <<debounceLeft, sinceSignal, burst, armedMidScan>>
       ELSE /\ debounceLeft' = RestartDebounce(debounceLeft)
            /\ sinceSignal' = 0
            /\ burst' = IF debounceLeft = NoTimer THEN 1 ELSE burst + 1
            /\ armedMidScan' = (TotalInFlight > 0)
  /\ UNCHANGED <<alive, started, running, scanning, fallbackTimer, inflight,
                 wsMode, wsRunning, subs, removing, sinceLastScan,
                 reconnectPending, reconnectAttempts, stopped>>

\* the debounce callback (ws-monitor.js 91-97) and _onSwapEvent (index.js 58-63)
DebounceFire ==
  /\ alive /\ debounceLeft = 0
  /\ debounceLeft' = NoTimer
  /\ ev' = "DebounceFire"
  /\ UNCHANGED <<traderVars, detectorVars, scanVars>>
  /\ IF InCooldown(sinceLastScan)
       THEN UNCHANGED <<sinceLastScan, scanning, inflight, fallbackTimer>>
       ELSE /\ sinceLastScan' = 0
            /\ IF OnSwapEventDrops(scanning)
                 THEN UNCHANGED <<scanning, inflight, fallbackTimer>>
                 ELSE /\ TotalInFlight < MaxInFlight
                      /\ fallbackTimer' = ResetFallbackTimer(fallbackTimer)
                      /\ BeginScan("push")
  /\ UNCHANGED <<alive, started, running, wsMode, wsRunning, subs, removing,
                 reconnectPending, reconnectAttempts, stopped, sinceSignal,
                 burst, armedMidScan>>

\* the fallback timer callback up to its await (index.js 67-69)
FallbackFire ==
  /\ alive /\ fallbackTimer = "pending"
  /\ TotalInFlight < MaxInFlight
  /\ fallbackTimer' = "fired"
  /\ BeginScan("fallback")
  /\ ev' = "FallbackFire"
  /\ UNCHANGED <<traderVars, detectorVars, scanVars>>
  /\ UNCHANGED <<alive, started, running, wsMode, wsRunning, subs, removing,
                 debounceLeft, sinceLastScan, reconnectPending,
                 reconnectAttempts, stopped, sinceSignal, burst, armedMidScan>>

\* scanAndTrade returns (lines 82-83 or 153); the fallback callback then
\* re-arms its timer (line 70)
ScanReturn(o) ==
  /\ alive /\ inflight[o] > 0
  /\ inflight' = [inflight EXCEPT ![o] = @ - 1]
  /\ scanning' = FALSE
  /\ fallbackTimer' = IF o = "fallback" THEN ResetFallbackTimer(fallbackTimer)
                                        ELSE fallbackTimer
  /\ ev' = "ScanReturn"
  /\ UNCHANGED <<traderVars, detectorVars, scanVars>>
  /\ UNCHANGED <<alive, started, running, wsMode, wsRunning, subs, removing,
                 debounceLeft, sinceLastScan, reconnectPending,
                 reconnectAttempts, stopped, sinceSignal, burst, armedMidScan>>

\* the state of a process that has exited: no timer, subscription or pending
\* invocation survives
ProcessExit ==
  /\ alive' = FALSE
  /\ inflight' = [o \in Origins |-> 0]
  /\ fallbackTimer' = "null"
  /\ debounceLeft' = NoTimer
  /\ subs' = 0
  /\ removing' = FALSE
  /\ reconnectPending' = FALSE
  /\ UNCHANGED <<started, scanning, wsMode, wsRunning, sinceLastScan,
                 reconnectAttempts, sinceSignal, burst, armedMidScan>>

\* scanAndTrade rejects (dbQueries.recordOpportunity, getStats or recordTrade
\* throws outside executeTrade's try).  The boot scan's rejection reaches
\* bot.start().catch -> process.exit(1) (index.js 178-181); a push or fallback
\* scan's rejection is unhandled: the runtime either terminates the process or
\* only warns, depending on its unhandled-rejection mode.
ScanThrow(o, exits) ==
  /\ alive /\ inflight[o] > 0
  /\ (o = "boot") => exits
  /\ ev' = "ScanThrow"
  /\ UNCHANGED <<traderVars, detectorVars, scanVars>>
  /\ IF exits
       THEN ProcessExit /\ UNCHANGED <<running, stopped>>
       ELSE /\ inflight' = [inflight EXCEPT ![o] = @ - 1]
            /\ UNCHANGED <<alive, started, running, scanning, fallbackTimer,
                           wsMode, wsRunning, subs, removing, debounceLeft,
                           sinceLastScan, reconnectPending, reconnectAttempts,
                           stopped, sinceSignal, burst, armedMidScan>>

\* stop() (index.js 156-161) with the synchronous prefix of WSMonitor.stop()
\* (ws-monitor.js 107-111): the first listener is removed in the same turn,
\* the others after the awaits of the removal loop
Stop ==
  /\ alive /\ started /\ ~stopped
  /\ stopped' = TRUE
  /\ running' = FALSE
  /\ fallbackTimer' = ClearFallbackTimer(fallbackTimer)
  /\ wsRunning' = FALSE
  /\ debounceLeft' = NoTimer
  /\ subs' = IF subs > 0 THEN subs - 1 ELSE 0
  /\ removing' = (subs > 1)
  /\ ev' = "Stop"
  /\ UNCHANGED <<traderVars, detectorVars, scanVars>>
  /\ UNCHANGED <<alive, started, scanning, inflight, wsMode, sinceLastScan,
                 reconnectPending, reconnectAttempts, sinceSignal, burst,
                 armedMidScan>>

\* one further iteration of the removal loop of WSMonitor.stop()
RemoveListener ==
  /\ alive /\ removing
  /\ subs' = subs - 1
  /\ removing' = (subs > 1)
  /\ ev' = "RemoveListener"
  /\ UNCHANGED <<traderVars, detectorVars, scanVars>>
  /\ UNCHANGED <<alive, started, running, scanning, fallbackTimer, inflight,
                 wsMode, wsRunning, debounceLeft, sinceLastScan,
                 reconnectPending, reconnectAttempts, stopped, sinceSignal,
                 burst, armedMidScan>>

\* the reconnect timer of _scheduleReconnect fires: this.start() again
ReconnectFire ==
  /\ alive /\ reconnectPending
  /\ WSStart
  /\ ev' = "ReconnectFire"
  /\ UNCHANGED <<traderVars, detectorVars, scanVars>>
  /\ UNCHANGED <<alive, started, running, scanning, fallbackTimer, inflight,
                 wsMode, removing, debounceLeft, sinceLastScan, stopped,
                 sinceSignal, burst, armedMidScan>>

\* SIGINT / SIGTERM handler (index.js 167-175): bot.stop(); process.exit(0)
Shutdown ==
  /\ alive /\ started
  /\ running' = FALSE
  /\ stopped' = TRUE
  /\ ProcessExit
  /\ ev' = "Shutdown"
  /\ UNCHANGED <<traderVars, detectorVars, scanVars>>

\* d milliseconds pass; a pending debounce timer fires when it reaches 0
Tick(d) ==
  /\ alive /\ started
  /\ IF debounceLeft = NoTimer THEN d >= DEBOUNCE_MS ELSE d <= debounceLeft
  /\ debounceLeft' = IF debounceLeft = NoTimer THEN NoTimer ELSE debounceLeft - d
  /\ sinceLastScan' = Min(sinceLastScan + d, MIN_SCAN_INTERVAL_MS)
  /\ sinceSignal' = Min(sinceSignal + d, DEBOUNCE_MS)
  /\ ev' = "Tick"
  /\ UNCHANGED <<traderVars, detectorVars, scanVars>>
  /\ UNCHANGED <<alive, started, running, scanning, fallbackTimer, inflight,
                 wsMode, wsRunning, subs, removing, reconnectPending,
                 reconnectAttempts, stopped, burst, armedMidScan>>

Next ==
  \/ Start
  \/ \E err \in BOOLEAN : OnLogs(err)
  \/ DebounceFire
  \/ FallbackFire
  \/ \E o \in Origins : ScanReturn(o)
  \/ \E o \in Origins, exits \in BOOLEAN : ScanThrow(o, exits)
  \/ Stop
  \/ RemoveListener
  \/ ReconnectFire
  \/ Shutdown
  \/ \E d \in TickSteps : Tick(d)

Spec == Init /\ [][Next]_vars

\* ----------------------------------------------------- executeTrade, step by step

riskVars == <<balance, halted, dailyLoss, dailyLossReset, trades, snapshot>>
walletVars == <<walletSol, solPriceUsd, residualSol, sweepSends>>
configVars == <<dryRun, alertQuoteDiff, today, walletVars>>

\* executeTrade(opportunity) up to its first await (lines 136-152)
ExecuteTrade(opp) ==
  /\ alive /\ call.pc = "idle"
  /\ CallAllowed(calls, sellFailureCounts, opp.pair)
  /\ calls' = calls + 1
  /\ ev' = "ExecuteTrade"
  /\ IF HaltedSkips(halted)
       THEN ReturnNull(NewCall(opp))
       ELSE LET tradeAmountUsd == CalcTradeAmount(balance, opp)
            IN IF tradeAmountUsd = 0
                 THEN ReturnNull(NewCall(opp))
                 ELSE Continue([NewCall(opp) EXCEPT !.pc = "gas",
                                                    !.amount = tradeAmountUsd])
  /\ UNCHANGED <<detectorVars, scanVars, schedVars, configVars, sellFailureCounts>>

\* steps 0-1: _fetchSolPrice, _assertGasReserve; ok: getBalance answered.
\* A short reserve or an RPC error throws into executeTrade's catch
AssertGasReserve(ok) ==
  /\ alive /\ call.pc = "gas"
  /\ ev' = "AssertGasReserve"
  /\ IF ok /\ ~GasReserveShort(walletSol, call.amount, solPriceUsd)
       THEN Continue([call EXCEPT !.pc = "buyQuote"])
       ELSE ReturnNull(call)
  /\ UNCHANGED <<detectorVars, scanVars, schedVars, configVars, sellFailureCounts, calls>>

\* step 2: the buy quote; null makes executeTrade throw into its own catch
GetBuyQuote(ok) ==
  /\ alive /\ call.pc = "buyQuote"
  /\ ok => QuotableLamports(solPriceUsd)
  /\ ev' = "GetBuyQuote"
  /\ LET c == [call EXCEPT !.quotes = @ + 1]
     IN IF ok THEN Continue([c EXCEPT !.pc = "sellQuote"])
              ELSE ReturnNull(c)
  /\ UNCHANGED <<detectorVars, scanVars, schedVars, configVars, sellFailureCounts, calls>>

\* steps 3-4: the sell quote and the profitability check on the live quotes
GetSellQuote(ok, realProfit) ==
  /\ alive /\ call.pc = "sellQuote"
  /\ ev' = "GetSellQuote"
  /\ LET effectiveMinProfit ==
           GetEffectiveMinProfitPercent(sellFailureCounts, call.pair)
         c == [call EXCEPT !.quotes = @ + 1]
         q == [c EXCEPT !.realProfit = realProfit,
                        !.required = effectiveMinProfit]
     IN IF ~ok
          THEN ReturnNull(c)
          ELSE IF QuoteUnprofitable(realProfit, call.amount, effectiveMinProfit)
                 THEN ReturnNull(q)
                 ELSE Continue([q EXCEPT !.pc = "simBuy"])
  /\ UNCHANGED <<detectorVars, scanVars, schedVars, configVars, sellFailureCounts, calls>>

\* step 5, line 187: simulate the buy leg
SimulateBuy(ok) ==
  /\ alive /\ call.pc = "simBuy"
  /\ ev' = "SimulateBuy"
  /\ Continue([call EXCEPT !.sims = @ + 1, !.buySimOk = ok, !.pc = "simSell"])
  /\ UNCHANGED <<detectorVars, scanVars, schedVars, configVars, sellFailureCounts, calls>>

\* step 5, lines 188-198 and 256-260: simulate the sell leg, then the gate;
\* in dry-run mode the trade is settled without any submission
SimulateSell(ok, disc) ==
  /\ alive /\ call.pc = "simSell"
  /\ ev' = "SimulateSell"
  /\ LET c == [call EXCEPT !.sims = @ + 1, !.sellSimOk = ok]
     IN IF ~SimulationsPassed(c.buySimOk, c.sellSimOk)
          THEN ~disc /\ ReturnNull(c)
          ELSE IF dryRun
                 THEN Settle([c EXCEPT !.buyTx = TRUE, !.sellTx = TRUE], disc)
                 ELSE ~disc /\ Continue([c EXCEPT !.pc = "buy"])
  /\ UNCHANGED <<detectorVars, scanVars, schedVars, configVars, sellFailureCounts, calls>>

\* lines 197-198: _submitSwap of the buy leg
SubmitBuy(ok) ==
  /\ alive /\ call.pc = "buy"
  /\ ev' = "SubmitBuy"
  /\ LET c == [call EXCEPT !.buySubmits = @ + 1, !.buyTx = ok]
     IN IF BuyAborts(ok) THEN ReturnNull(c)
                         ELSE Continue([c EXCEPT !.pc = "sell"])
  /\ UNCHANGED <<detectorVars, scanVars, schedVars, configVars, sellFailureCounts, calls>>

\* lines 203-255: one iteration of the sell loop, and what follows the loop
\* up to the next await
SubmitSell(ok, sends, disc) ==
  /\ alive /\ call.pc = "sell"
  /\ sends \in SwapSends(ok)
  /\ ev' = "SubmitSell"
  /\ LET c == [call EXCEPT !.attemptSell = @ + 1, !.sellSubmits = @ + 1,
                           !.sellSends = @ + sends]
     IN IF ok
          THEN IF sellFailureCounts[call.pair] # 0
                 THEN /\ ~disc
                      /\ sellFailureCounts' =
                           ClearSellFailure(sellFailureCounts, call.pair)
                      /\ Continue([c EXCEPT !.sellTx = TRUE, !.pc = "revertAlert"])
                 ELSE /\ UNCHANGED sellFailureCounts
                      /\ Settle([c EXCEPT !.sellTx = TRUE], disc)
          ELSE IF c.attemptSell <= sellRetryCount
                 THEN /\ ~disc
                      /\ UNCHANGED sellFailureCounts
                      /\ Continue(c)
                 ELSE /\ ~disc
                      /\ sellFailureCounts' =
                           IncSellFailure(sellFailureCounts, call.pair)
                      /\ Continue([c EXCEPT !.pc =
                           IF sellFailureCounts'[call.pair] >= failureThreshold
                             THEN "adaptiveAlert" ELSE "partialAlert"])
  /\ UNCHANGED <<detectorVars, scanVars, schedVars, configVars, calls>>

\* await notifier.send(...) of lines 229, 238 and 250
NotifierSend(disc) ==
  /\ alive /\ call.pc \in {"adaptiveAlert", "partialAlert", "revertAlert"}
  /\ ev' = "NotifierSend"
  /\ CASE call.pc = "adaptiveAlert" ->
            ~disc /\ Continue([call EXCEPT !.alerts.adaptive = @ + 1,
                                           !.pc = "partialAlert"])
       [] call.pc = "partialAlert" ->
            Settle([call EXCEPT !.alerts.partial = @ + 1], disc)
       [] call.pc = "revertAlert" ->
            Settle([call EXCEPT !.alerts.revert = @ + 1], disc)
  /\ UNCHANGED <<detectorVars, scanVars, schedVars, configVars, sellFailureCounts, calls>>

\* _recordLoss(amount), fed directly
RecordLoss(amount) ==
  /\ alive
  /\ (IF today >= dailyLossReset THEN 0 ELSE dailyLoss) + amount <= MaxLossTally
  /\ ev' = "RecordLoss"
  /\ dailyLoss' = AfterLoss(amount).dailyLoss
  /\ dailyLossReset' = AfterLoss(amount).dailyLossReset
  /\ halted' = AfterLoss(amount).halted
  /\ UNCHANGED <<detectorVars, scanVars, schedVars, walletVars, dryRun, alertQuoteDiff, today, balance,
                 sellFailureCounts, trades, snapshot, call, calls>>

\* one wallet token of _scanWalletTokens (lines 495-525) handed to
\* _processAutoSell (lines 532-571).  reach says that both quotes and
\* getBalance answered, ok and sends are the outcome of _submitSwap
AutoSell(p, reach, ok, sends) ==
  /\ alive
  /\ sends \in SwapSends(ok)
  /\ sweepSends + sends <= MaxSweepSends
  /\ ev' = "AutoSell"
  /\ LET usdValue == residualSol * solPriceUsd
         submits  == /\ ~SweepSkips(usdValue)
                     /\ reach
                     /\ ~SweepDryRunReturns(dryRun)
                     /\ ~(walletSol < solGasReserve)
     IN /\ ~submits => (~ok /\ sends = 0)
        /\ sweepSends' = IF submits THEN sweepSends + sends ELSE sweepSends
        /\ sellFailureCounts' =
             IF submits /\ ok THEN ClearSellFailure(sellFailureCounts, p)
                              ELSE sellFailureCounts
  /\ UNCHANGED <<detectorVars, scanVars, schedVars, riskVars, dryRun,
                 alertQuoteDiff, today, walletSol, solPriceUsd, residualSol,
                 call, calls>>

\* SIGINT / SIGTERM while an executeTrade is in flight (index.js 167-175):
\* bot.stop() clears timers only, process.exit(0) then ends the process and
\* with it the pending invocation
SignalExit ==
  /\ alive /\ call.pc # "idle"
  /\ alive' = FALSE
  /\ ev' = "SignalExit"
  /\ UNCHANGED <<started, running, scanning, fallbackTimer, inflight, wsMode,
                 wsRunning, subs, removing, debounceLeft, sinceLastScan,
                 reconnectPending, reconnectAttempts, stopped, sinceSignal,
                 burst, armedMidScan>>
  /\ UNCHANGED <<traderVars, detectorVars, scanVars>>

\* midnight UTC passes
NextDay ==
  /\ alive /\ today < MaxDay
  /\ today' = today + 1
  /\ ev' = "NextDay"
  /\ UNCHANGED <<detectorVars, scanVars, schedVars, walletVars, dryRun, alertQuoteDiff,
                 balance, halted, dailyLoss,
                 dailyLossReset, sellFailureCounts, trades, snapshot, call, calls>>

TraderNext ==
  \/ \E opp \in Opportunities : ExecuteTrade(opp)
  \/ \E ok \in BOOLEAN : AssertGasReserve(ok)
  \/ \E ok \in BOOLEAN : GetBuyQuote(ok)
  \/ \E ok \in BOOLEAN, realProfit \in RealProfits : GetSellQuote(ok, realProfit)
  \/ \E ok \in SimulateSwapResults : SimulateBuy(ok)
  \/ \E ok \in SimulateSwapResults, disc \in BOOLEAN : SimulateSell(ok, disc)
  \/ \E ok \in BOOLEAN : SubmitBuy(ok)
  \/ \E ok \in BOOLEAN, sends \in 0..MAX_RETRIES, disc \in BOOLEAN :
       SubmitSell(ok, sends, disc)
  \/ \E disc \in BOOLEAN : NotifierSend(disc)
  \/ \E amount \in LossAmounts : RecordLoss(amount)
  \/ SignalExit
  \/ NextDay

TraderSpec == TraderInit /\ [][TraderNext]_vars

\* ------------------------------------------- the sizing of executeTrade

\* balances around the point where 95 % of the balance meets the hard cap
SizingBalances == {0, 100, 4000, 10526, 10527, startingCapital}
\* scan prices from no spread to 5 %
SizingSellPrices == {100, 101, 102, 105}

SizingOpportunities ==
  [pair : Pairs, buyPrice : OppBuyPrices, sellPrice : SizingSellPrices]

\* the trader after init(), for any tracked balance
SizingInit ==
  /\ SchedInit
  /\ wsMode = "off"
  /\ TraderFields
  /\ DetectorFields
  /\ dryRun = TRUE
  /\ alertQuoteDiff = FALSE
  /\ balance \in SizingBalances
  /\ walletSol = 110
  /\ solPriceUsd = 100
  /\ residualSol = 30

\* executeTrade up to the gas check, which lets the next call begin
SizingNext ==
  \/ \E opp \in SizingOpportunities : ExecuteTrade(opp)
  \/ \E ok \in BOOLEAN : AssertGasReserve(ok)

SizingSpec == SizingInit /\ [][SizingNext]_vars

\* ------------------------------------- executeTrade next to the wallet auto-sell

\* the trader after init(), which starts the auto-sell poll (line 129), for
\* any wallet
SweepInit ==
  /\ SchedInit
  /\ wsMode = "off"
  /\ TraderFields
  /\ DetectorFields
  /\ dryRun \in BOOLEAN
  /\ alertQuoteDiff = FALSE
  /\ balance = startingCapital
  /\ walletSol \in SolBalances
  /\ solPriceUsd \in SolPrices
  /\ residualSol \in SweepQuotes

\* the steps of executeTrade interleaved with the auto-sell timer
SweepNext ==
  \/ \E opp \in Opportunities : ExecuteTrade(opp)
  \/ \E ok \in BOOLEAN : AssertGasReserve(ok)
  \/ \E ok \in BOOLEAN : GetBuyQuote(ok)
  \/ \E ok \in BOOLEAN, realProfit \in RealProfits : GetSellQuote(ok, realProfit)
  \/ \E ok \in SimulateSwapResults : SimulateBuy(ok)
  \/ \E ok \in SimulateSwapResults : SimulateSell(ok, FALSE)
  \/ \E ok \in BOOLEAN : SubmitBuy(ok)
  \/ \E ok \in BOOLEAN, sends \in 0..MAX_RETRIES : SubmitSell(ok, sends, FALSE)
  \/ NotifierSend(FALSE)
  \/ \E p \in Pairs, reach \in BOOLEAN, ok \in BOOLEAN, sends \in 0..MAX_RETRIES :
       AutoSell(p, reach, ok, sends)

SweepSpec == SweepInit /\ [][SweepNext]_vars

\* ------------------------------ executeTrade invocations of overlapping scans

\* invocations followed per behaviour
MaxOverlap == 3

\* an executeTrade invocation has passed the profit gate (line 180) and is at
\* an await of step 5; seen is the balance row at that moment (history)
LedgerAwait(opp, realProfit) ==
  /\ alive
  /\ Len(overlap) < MaxOverlap
  /\ ~HaltedSkips(halted)
  /\ LET tradeAmountUsd == CalcTradeAmount(balance, opp)
         effectiveMinProfit ==
           GetEffectiveMinProfitPercent(sellFailureCounts, opp.pair)
         c == [NewCall(opp) EXCEPT !.pc = "simBuy", !.amount = tradeAmountUsd,
                                   !.quotes = 2, !.realProfit = realProfit,
                                   !.required = effectiveMinProfit]
     IN /\ tradeAmountUsd # 0
        /\ ~QuoteUnprofitable(realProfit, tradeAmountUsd, effectiveMinProfit)
        /\ overlap' = Append(overlap, [c |-> c, seen |-> snapshot, pc |-> "await"])
  /\ ev' = "LedgerAwait"
  /\ UNCHANGED <<schedVars, traderVars, detectorVars, fetch, tradeLoop, jupCache,
                 swap>>

\* the invocation resumes after its last await and runs step 6 to its return
LedgerSettle(i) ==
  /\ alive
  /\ i \in 1..Len(overlap) /\ overlap[i].pc = "await"
  /\ SettleFrom([overlap[i].c EXCEPT !.sims = 2, !.buySimOk = TRUE,
                                     !.sellSimOk = TRUE, !.buyTx = TRUE,
                                     !.sellTx = TRUE],
                FALSE, SnapshotRead(overlap[i].seen, snapshot))
  /\ overlap' = [overlap EXCEPT ![i].pc = "trade"]
  /\ ev' = "LedgerSettle"
  /\ UNCHANGED <<schedVars, detectorVars, fetch, tradeLoop, jupCache, swap, configVars,
                 sellFailureCounts, calls>>

\* the invocation ends at line 191 or in the catch of line 314: return null
LedgerReturnNull(i) ==
  /\ alive
  /\ i \in 1..Len(overlap) /\ overlap[i].pc = "await"
  /\ ReturnNull(overlap[i].c)
  /\ overlap' = [overlap EXCEPT ![i].pc = "null"]
  /\ ev' = "LedgerReturnNull"
  /\ UNCHANGED <<schedVars, detectorVars, fetch, tradeLoop, jupCache, swap, configVars,
                 sellFailureCounts, calls>>

LedgerInit == Init /\ wsMode = "off"

LedgerNext ==
  \/ \E opp \in Opportunities, realProfit \in RealProfits : LedgerAwait(opp, realProfit)
  \/ \E i \in 1..MaxOverlap : LedgerSettle(i)
  \/ \E i \in 1..MaxOverlap : LedgerReturnNull(i)

LedgerSpec == LedgerInit /\ [][LedgerNext]_vars

\* --------------------------------------- _submitSwap, attempt by attempt

\* getSignatureStatus polls of one _confirmTx that fit before its deadline
MaxPolls == 2
\* what _confirmTx reads from a poll (lines 450-452)
SignatureStatuses == {"confirmed", "err", "pending"}

\* executeTrade lines 198-216 once _submitSwap has returned: a failed buy
\* throws, a confirmed buy enters the sell loop, a failed sell is retried
\* while attemptSell <= sellRetries
SwapReturned(sw, sig) ==
  IF sw.leg = "buy"
    THEN IF sig
           THEN [sw EXCEPT !.leg = "sell", !.attemptSell = 1, !.attempt = 1,
                           !.pc = "fetch", !.polls = 0, !.sig = TRUE]
           ELSE [sw EXCEPT !.pc = "done", !.sig = FALSE]
    ELSE IF sig \/ sw.attemptSell > sellRetryCount
           THEN [sw EXCEPT !.pc = "done", !.sig = sig]
           ELSE [sw EXCEPT !.attemptSell = @ + 1, !.attempt = 1,
                           !.pc = "fetch", !.polls = 0, !.sig = FALSE]

\* the catch of lines 438-441: the next attempt, or return null (line 443)
SwapCaught(sw) ==
  IF sw.attempt < MAX_RETRIES
    THEN [sw EXCEPT !.attempt = @ + 1, !.pc = "fetch", !.polls = 0]
    ELSE SwapReturned(sw, FALSE)

\* executeTrade lines 196-197 in live mode: _submitSwap(buyQuote)
SwapStart ==
  /\ alive /\ ~dryRun
  /\ swap.pc = "idle"
  /\ swap' = [swap EXCEPT !.pc = "fetch", !.leg = "buy", !.attempt = 1]
  /\ ev' = "SwapStart"
  /\ UNCHANGED <<schedVars, traderVars, detectorVars, fetch, tradeLoop, jupCache,
                 overlap>>

\* lines 412-419: fetchSwapTx, deserialize, sign
FetchSwapTx(ok) ==
  /\ alive
  /\ swap.pc = "fetch"
  /\ swap' = IF ok THEN [swap EXCEPT !.pc = "send"] ELSE SwapCaught(swap)
  /\ ev' = "FetchSwapTx"
  /\ UNCHANGED <<schedVars, traderVars, detectorVars, fetch, tradeLoop, jupCache,
                 overlap>>

\* lines 422-427: sendRawTransaction hands the transaction to the network or
\* throws (preflight)
SendRawTransaction(ok) ==
  /\ alive
  /\ swap.pc = "send"
  /\ swap' = IF ok
               THEN IF swap.leg = "buy"
                      THEN [swap EXCEPT !.pc = "confirm", !.buySent = @ + 1]
                      ELSE [swap EXCEPT !.pc = "confirm", !.sellSent = @ + 1]
               ELSE SwapCaught(swap)
  /\ ev' = "SendRawTransaction"
  /\ UNCHANGED <<schedVars, traderVars, detectorVars, fetch, tradeLoop, jupCache,
                 overlap>>

\* one round of _confirmTx (lines 448-457) and, when it returns, lines 432-436
GetSignatureStatus(status) ==
  /\ alive
  /\ swap.pc = "confirm"
  /\ swap' = CASE status = "confirmed" -> SwapReturned(swap, TRUE)
               [] status = "err" -> SwapCaught(swap)
               [] status = "pending" ->
                    IF swap.polls + 1 < MaxPolls
                      THEN [swap EXCEPT !.polls = @ + 1]
                      ELSE SwapCaught(swap)
  /\ ev' = "GetSignatureStatus"
  /\ UNCHANGED <<schedVars, traderVars, detectorVars, fetch, tradeLoop, jupCache,
                 overlap>>

\* a live trader about to submit
SwapInit ==
  /\ SchedInit
  /\ wsMode = "off"
  /\ TraderFields
  /\ DetectorFields
  /\ dryRun = FALSE
  /\ alertQuoteDiff = FALSE
  /\ balance = startingCapital
  /\ walletSol = 110
  /\ solPriceUsd = 100
  /\ residualSol = 30

SwapNext ==
  \/ SwapStart
  \/ \E ok \in BOOLEAN : FetchSwapTx(ok)
  \/ \E ok \in BOOLEAN : SendRawTransaction(ok)
  \/ \E status \in SignatureStatuses : GetSignatureStatus(status)

SwapSpec == SwapInit /\ [][SwapNext]_vars

\* ------------------------------------------- arbitrage.js: the detector

\* price points offered to findArbitrageOpportunities per call (at least two:
\* scanForOpportunities skips shorter lists)
MaxPrices == 2
Exchanges == {"Raydium", "Orca"}
RawPrices == {100, 102, 105}
\* now - price.timestamp, in ms
Ages == {0, StalenessWindowMs, StalenessWindowMs + 1}
\* config.slippageTolerance, in 1/10000: none, 1 %, the shipped 4 %
Slippages == {0, 100, defaultSlippageTolerance}
\* config.minProfitPercent * 100, in 1/100 of a percent: 0.5 %, the shipped
\* 1.67 %, and 2.1 %, which the 2 % spread of 100 and 102 misses by 0.1
MinThresholds == {50, minProfitPercent, 210}

PricePoints == [exchange : Exchanges, price : RawPrices, age : Ages]
PriceLists == UNION {[1..n -> PricePoints] : n \in 2..MaxPrices}

Max(a, b) == IF a > b THEN a ELSE b

Undefined == "undefined"

\* config.discoverySlippage: the config object has no such key
discoverySlippage == Undefined

\* line 72: (1 + config.discoverySlippage || config.slippageTolerance), in
\* 1/10000.  The sum binds tighter than ||: with discoverySlippage undefined
\* the sum is NaN, which is falsy, so the factor is slippageTolerance itself.
BuyFactor(disc, tol) ==
  IF disc = Undefined THEN tol
  ELSE IF 10000 + disc # 0 THEN 10000 + disc ELSE tol

\* line 73: (1 - config.discoverySlippage || config.slippageTolerance)
SellFactor(disc, tol) ==
  IF disc = Undefined THEN tol
  ELSE IF 10000 - disc # 0 THEN 10000 - disc ELSE tol

BothTooOld(price1, price2) ==
  price1.age > StalenessWindowMs /\ price2.age > StalenessWindowMs

\* line 50: now - price1.timestamp > 10000 || now - price2.timestamp > 10000
TooOld(price1, price2) ==
  price1.age > StalenessWindowMs \/ price2.age > StalenessWindowMs

SameExchangeAllowed(price1, price2) == FALSE

\* line 56: price1.exchange === price2.exchange
SameExchange(price1, price2) == price1.exchange = price2.exchange

\* line 78: profitPercent >= minThreshold, profitPercent being num / den
\* percent (den = 0: NaN when num = 0, otherwise an infinity)
MeetsThreshold(num, den, minT) ==
  IF den = 0 THEN num > 0 ELSE num * 100 >= minT * den

\* lines 58-86 for one pair of price points: the Opportunity and whether it
\* is pushed; prices with slippage are in 1/10000 of the price unit, the
\* profit percent is the fraction profitNum / profitDen
PairOpportunity(price1, price2, tol, minT) ==
  LET buyPrice     == Min(price1.price, price2.price)
      sellPrice    == Max(price1.price, price2.price)
      buyExchange  == IF price1.price < price2.price THEN price1.exchange
                                                     ELSE price2.exchange
      sellExchange == IF price1.price < price2.price THEN price2.exchange
                                                     ELSE price1.exchange
      buyPriceWithSlippage  == buyPrice * BuyFactor(discoverySlippage, tol)
      sellPriceWithSlippage == sellPrice * SellFactor(discoverySlippage, tol)
      num == (sellPriceWithSlippage - buyPriceWithSlippage) * 100
      den == buyPriceWithSlippage
  IN [emit |-> /\ ~TooOld(price1, price2)
               /\ ~SameExchange(price1, price2)
               /\ MeetsThreshold(num, den, minT),
      opp  |-> [buyExchange |-> buyExchange, sellExchange |-> sellExchange,
                buyPrice |-> buyPriceWithSlippage,
                sellPrice |-> sellPriceWithSlippage,
                profitNum |-> num, profitDen |-> den]]

\* the double loop of lines 43-89 from pair (i, j) on
RECURSIVE FindFrom(_, _, _, _, _)
FindFrom(ps, i, j, tol, minT) ==
  IF i > Len(ps) THEN <<>>
  ELSE IF j > Len(ps) THEN FindFrom(ps, i + 1, i + 2, tol, minT)
  ELSE LET o == PairOpportunity(ps[i], ps[j], tol, minT)
       IN (IF o.emit THEN <<o.opp>> ELSE <<>>)
            \o FindFrom(ps, i, j + 1, tol, minT)

\* the detector under any configuration of slippage and minimum profit
DetectorInit ==
  /\ SchedInit
  /\ wsMode = "off"
  /\ TraderFields
  /\ dryRun = TRUE
  /\ alertQuoteDiff = FALSE
  /\ balance = startingCapital
  /\ walletSol = 110
  /\ solPriceUsd = 100
  /\ residualSol = 30
  /\ slippageTolerance \in Slippages
  /\ minThreshold \in MinThresholds
  /\ prices = <<>>
  /\ opportunities = <<>>
  /\ found = FALSE
  /\ nearMiss \in [webhook : BOOLEAN, posts : {0}, threw : {FALSE}]

\* scanForOpportunities lines 124-129: the price points of a token
FetchAllPrices(ps) ==
  /\ prices = <<>>
  /\ prices' = ps
  /\ opportunities' = <<>>
  /\ found' = FALSE
  /\ nearMiss' = [nearMiss EXCEPT !.posts = 0, !.threw = FALSE]
  /\ ev' = "FetchAllPrices"
  /\ UNCHANGED <<schedVars, traderVars, scanVars, slippageTolerance, minThreshold>>

\* lines 39-40 and 65-69 over the double loop from pair (i, j) on: the
\* largest raw spread seen so far, as the fraction num / den percent, and
\* its pair of venues
RECURSIVE BestFrom(_, _, _, _)
BestFrom(ps, i, j, best) ==
  IF i > Len(ps) THEN best
  ELSE IF j > Len(ps) THEN BestFrom(ps, i + 1, i + 2, best)
  ELSE LET buyPrice  == Min(ps[i].price, ps[j].price)
           sellPrice == Max(ps[i].price, ps[j].price)
           num == (sellPrice - buyPrice) * 100
           bestPair == IF ps[i].price < ps[j].price
                         THEN <<ps[i].exchange, ps[j].exchange>>
                         ELSE <<ps[j].exchange, ps[i].exchange>>
           seen == /\ ~TooOld(ps[i], ps[j])
                   /\ ~SameExchange(ps[i], ps[j])
                   /\ num * best.den > best.num * buyPrice
       IN BestFrom(ps, i, j + 1,
                   IF seen THEN [num |-> num, den |-> buyPrice, pair |-> bestPair]
                           ELSE best)

\* line 97: const margin = 0.2, in 1/100 of a percent
nearMissMargin == 20

\* lines 92 and 98: bestPair is set, bestSpread < minThreshold and
\* bestSpread >= minThreshold - margin
NearMiss(best, minT) ==
  /\ best.pair # <<>>
  /\ best.num * 100 < minT * best.den
  /\ best.num * 100 >= (minT - nearMissMargin) * best.den

\* line 104: the alert text reads buyPrice and sellPrice, which are consts of
\* the inner loop body (lines 59-60) and not in scope after the loops:
\* building the payload is a ReferenceError, raised before axios.post
PayloadThrows == TRUE

\* findArbitrageOpportunities(prices, token), with the catch of
\* scanForOpportunities (lines 140-142) for what it throws
FindArbitrageOpportunities ==
  /\ prices # <<>> /\ ~found
  /\ LET best == BestFrom(prices, 1, 2, [num |-> 0, den |-> 1, pair |-> <<>>])
         alerting == NearMiss(best, minThreshold) /\ nearMiss.webhook
         threw == alerting /\ PayloadThrows
     IN /\ nearMiss' = [nearMiss EXCEPT !.threw = threw,
                          !.posts = IF alerting /\ ~threw THEN 1 ELSE 0]
        /\ opportunities' =
             IF threw THEN <<>>
             ELSE FindFrom(prices, 1, 2, slippageTolerance, minThreshold)
  /\ found' = TRUE
  /\ ev' = "FindArbitrageOpportunities"
  /\ UNCHANGED <<schedVars, traderVars, scanVars, slippageTolerance, minThreshold, prices>>

DetectorNext ==
  \/ \E ps \in PriceLists : FetchAllPrices(ps)
  \/ FindArbitrageOpportunities

DetectorSpec == DetectorInit /\ [][DetectorNext]_vars

\* ------------------------------------------- arbitrage.js: fetchAllPrices

\* jupiter-dex-quotes.js line 30
TARGET_DEXES == <<"Raydium", "Orca", "Meteora">>
\* arbitrage.js line 28
minLiquidityUsd == 10000
minVolume24hUsd == 500

\* what the quote API may answer for one DEX
DexReplies == {"quote", "noroute", "error"}
\* pools per DexScreener answer
MaxPools == 2
Liquidities == {minLiquidityUsd - 1, minLiquidityUsd, minLiquidityUsd + 1}
Volumes == {minVolume24hUsd, minVolume24hUsd + 1}
Pools == [exchange : Exchanges, liquidity : Liquidities, volume24h : Volumes]
PoolLists == UNION {[1..n -> Pools] : n \in 0..MaxPools}
\* what DexScreener may answer: an error or timeout, or the SOL pools it lists
SecondaryReplies ==
  {[ok |-> FALSE, pools |-> <<>>]} \cup [ok : {TRUE}, pools : PoolLists]

\* _quoteDex (lines 64-101): the price point of a direct route, null (here:
\* no point) when there is no route or the request fails
QuoteDex(dexName, reply) ==
  IF reply = "quote"
    THEN <<[exchange |-> dexName, liquidity |-> 999999, volume24h |-> 999999]>>
    ELSE <<>>

\* JupiterDexQuotes.getPrices (lines 45-62): the fulfilled, non-null results
\* of the three _quoteDex calls, in the order of TARGET_DEXES
GetPrices(replies) ==
  QuoteDex(TARGET_DEXES[1], replies[1])
    \o QuoteDex(TARGET_DEXES[2], replies[2])
    \o QuoteDex(TARGET_DEXES[3], replies[3])

GetPriceRethrows(reply) ==
  [threw |-> ~reply.ok, pools |-> reply.pools]

\* DexScreenerFetcher.getPrice (lines 11-76): the pools, or null (here: no
\* pools) when the request fails or lists no SOL pair; nothing is thrown
GetPrice(reply) ==
  [threw |-> FALSE, pools |-> IF reply.ok THEN reply.pools ELSE <<>>]

\* arbitrage.js line 16
AcceptPrimary(jupPrices) == Len(jupPrices) >= 2

\* arbitrage.js line 28
KeepsPool(priceData) ==
  priceData.liquidity > minLiquidityUsd /\ priceData.volume24h > minVolume24hUsd

\* fetchAllPrices (lines 12-34); an exception of dexScreener.getPrice would
\* leave through line 25, which no try guards
FetchAllPricesResult(replies, secondary) ==
  LET jupPrices == GetPrices(replies)
      dexPrices == GetPrice(secondary)
  IN IF AcceptPrimary(jupPrices)
       THEN [threw |-> FALSE, prices |-> jupPrices]
       ELSE IF dexPrices.threw
              THEN [threw |-> TRUE, prices |-> <<>>]
              ELSE [threw |-> FALSE, prices |-> SelectSeq(dexPrices.pools, KeepsPool)]

\* ------------------------------------- jupiter-dex-quotes.js: the quote cache

\* getPrices calls awaiting their quotes at one time
MaxFetches == 2
\* what the three _quoteDex calls of one getPrices may answer
QuoteRounds == {<<"quote", "quote", "quote">>, <<"quote", "error", "noroute">>,
                <<"error", "error", "error">>}
CacheTicks == {1000, CACHE_TTL_MS}

\* line 50: cached && Date.now() - cached.ts < CACHE_TTL_MS
CacheFresh(entry) == entry.ts >= 0 /\ entry.ts < CACHE_TTL_MS

\* getPrices(tokenSymbol) up to its await (lines 46-53): a symbol without a
\* mint and a fresh entry return at once, anything else sends the quotes
GetPricesCall(t) ==
  /\ LET c == jupCache
         e == c.cache[t]
         sends == GetTokenMint(t) /\ ~CacheFresh(e)
     IN /\ sends => c.inflight["RAY"] + c.inflight["BONK"] < MaxFetches
        /\ jupCache' =
             [c EXCEPT !.inflight[t] = IF sends THEN @ + 1 ELSE @,
                       !.cleared[t] = FALSE,
                       !.last = [token |-> t,
                                 hit |-> GetTokenMint(t) /\ CacheFresh(e),
                                 queried |-> sends,
                                 prices |-> IF GetTokenMint(t) /\ CacheFresh(e)
                                              THEN e.prices ELSE <<>>]]
  /\ ev' = "GetPricesCall"
  /\ UNCHANGED <<schedVars, traderVars, detectorVars, fetch, tradeLoop, overlap, swap>>

\* the quotes of a getPrices call have settled (lines 56-61): the result is
\* cached under the symbol with ts = Date.now()
GetPricesSettle(t, replies) ==
  /\ jupCache.inflight[t] > 0
  /\ jupCache' = [jupCache EXCEPT !.inflight[t] = @ - 1,
                                  !.cache[t] = [ts |-> 0, prices |-> GetPrices(replies)]]
  /\ ev' = "GetPricesSettle"
  /\ UNCHANGED <<schedVars, traderVars, detectorVars, fetch, tradeLoop, overlap, swap>>

\* invalidateAll() (lines 103-105): this.cache.clear()
InvalidateAll ==
  /\ jupCache' = [jupCache EXCEPT !.cache = [t \in CacheTokens |-> NoEntry],
                                  !.cleared = [t \in CacheTokens |-> TRUE]]
  /\ ev' = "InvalidateAll"
  /\ UNCHANGED <<schedVars, traderVars, detectorVars, fetch, tradeLoop, overlap, swap>>

\* d milliseconds pass
CacheTick(d) ==
  /\ \E t \in CacheTokens : jupCache.cache[t].ts \in 0..(CACHE_TTL_MS - 1)
  /\ jupCache' = [jupCache EXCEPT !.cache =
       [t \in CacheTokens |->
          IF jupCache.cache[t].ts < 0 THEN NoEntry
          ELSE [jupCache.cache[t] EXCEPT !.ts = Min(@ + d, CACHE_TTL_MS)]]]
  /\ ev' = "CacheTick"
  /\ UNCHANGED <<schedVars, traderVars, detectorVars, fetch, tradeLoop, overlap, swap>>

CacheInit == Init /\ wsMode = "off"

CacheNext ==
  \/ \E t \in CacheTokens : GetPricesCall(t)
  \/ \E t \in CacheTokens, replies \in QuoteRounds : GetPricesSettle(t, replies)
  \/ InvalidateAll
  \/ \E d \in CacheTicks : CacheTick(d)

CacheSpec == CacheInit /\ [][CacheNext]_vars

\* the detector of a bot that has not fetched anything yet
FetchInit == Init /\ wsMode = "off"

\* fetchAllPrices(token) against any remote answers
FetchToken ==
  /\ fetch.state = "new"
  /\ \E replies \in [1..3 -> DexReplies], secondary \in SecondaryReplies :
       fetch' = [state |-> "done", replies |-> replies, secondary |-> secondary,
                 threw |-> FetchAllPricesResult(replies, secondary).threw,
                 prices |-> FetchAllPricesResult(replies, secondary).prices]
  /\ ev' = "FetchToken"
  /\ UNCHANGED <<schedVars, traderVars, detectorVars, tradeLoop, jupCache, overlap, swap>>

FetchNext == FetchToken

FetchSpec == FetchInit /\ [][FetchNext]_vars

\* ------------------------------------- index.js: the trading loop of a scan

\* opportunities one scan may find
MaxOpps == 4
\* their profit percents, in 1/100 of a percent
LoopProfits == {170, 200, 300}
FoundLists ==
  UNION {[1..n -> [profitPercent : LoopProfits]] : n \in 0..MaxOpps}

\* x put behind every element that does not sort after it
RECURSIVE InsertByProfit(_, _)
InsertByProfit(sorted, x) ==
  IF sorted = <<>> THEN <<x>>
  ELSE IF sorted[1].profitPercent >= x.profitPercent
         THEN <<sorted[1]>> \o InsertByProfit(Tail(sorted), x)
         ELSE <<x>> \o sorted

\* line 104: opportunities.sort((a, b) => b.profitPercent - a.profitPercent),
\* a stable sort
RECURSIVE SortByProfit(_)
SortByProfit(opps) ==
  IF opps = <<>> THEN <<>>
  ELSE InsertByProfit(SortByProfit(SubSeq(opps, 1, Len(opps) - 1)),
                      opps[Len(opps)])

SliceAll(sortedOpps) == sortedOpps

\* line 106: sortedOpps.slice(0, 3)
SliceTop(sortedOpps) == SubSeq(sortedOpps, 1, Min(3, Len(sortedOpps)))

\* the bot before a scan
LoopInit == Init /\ wsMode = "off"

\* scanAndTrade lines 78-104: the scan's result, numbered as found, is
\* sorted; an empty result ends the pass
ScanForOpportunities ==
  /\ tradeLoop.pc = "new"
  /\ \E opps \in FoundLists :
       LET numbered == [i \in 1..Len(opps) |->
                          [id |-> i, profitPercent |-> opps[i].profitPercent]]
       IN tradeLoop' = [tradeLoop EXCEPT
                          !.found = numbered,
                          !.sorted = SortByProfit(numbered),
                          !.pc = IF opps = <<>> THEN "done" ELSE "loop"]
  /\ ev' = "ScanForOpportunities"
  /\ UNCHANGED <<schedVars, traderVars, detectorVars, fetch, jupCache, overlap, swap>>

\* lines 106-113: the loop head, then the call of executeTrade(opp)
LoopExecute ==
  /\ tradeLoop.pc = "loop"
  /\ LET top == SliceTop(tradeLoop.sorted)
         k   == Len(tradeLoop.handed) + 1
     IN tradeLoop' =
          IF k > Len(top)
            THEN [tradeLoop EXCEPT !.pc = "done"]
            ELSE [tradeLoop EXCEPT !.handed = Append(@, top[k]),
                                   !.executing = @ + 1,
                                   !.pc = "await"]
  /\ ev' = "LoopExecute"
  /\ UNCHANGED <<schedVars, traderVars, detectorVars, fetch, jupCache, overlap, swap>>

\* lines 113-138: the awaited executeTrade settles, the iteration ends
ExecuteReturns ==
  /\ tradeLoop.pc = "await"
  /\ tradeLoop' = [tradeLoop EXCEPT !.executing = @ - 1, !.pc = "loop"]
  /\ ev' = "ExecuteReturns"
  /\ UNCHANGED <<schedVars, traderVars, detectorVars, fetch, jupCache, overlap, swap>>

LoopNext ==
  \/ ScanForOpportunities
  \/ LoopExecute
  \/ ExecuteReturns

LoopSpec == LoopInit /\ [][LoopNext]_vars

\* ============================================================ scheduler claims

\* C1: at most one scanAndTrade pass is in flight at any time; neither a push
\* trigger nor the fallback timer starts a second scan while one is running.
C1_AtMostOneScan == TotalInFlight <= 1

C7_CooldownDropsTrigger ==
  [][ (ev' = "DebounceFire" /\ sinceLastScan < MIN_SCAN_INTERVAL_MS) =>
        /\ inflight' = inflight
        /\ scanning' = scanning
        /\ debounceLeft' = NoTimer
        /\ sinceLastScan' = sinceLastScan
        /\ fallbackTimer' = fallbackTimer
    ]_vars

\* a trigger was just dropped inside the cooldown and the scheduler is idle
C7_Witness ==
  /\ ev = "DebounceFire"
  /\ sinceLastScan > 0 /\ sinceLastScan < MIN_SCAN_INTERVAL_MS
  /\ TotalInFlight = 0 /\ debounceLeft = NoTimer

C9_FallbackPendingWhenIdle ==
  (alive /\ started /\ ~stopped /\ TotalInFlight = 0) => fallbackTimer = "pending"

\* C10: after stop() no new scan is ever started.
C10_NoScanAfterStop ==
  [][ stopped => \A o \in Origins : inflight'[o] <= inflight[o] ]_vars

\* ============================================================= detector claims

PairIndexes == {ij \in (1..Len(prices)) \X (1..Len(prices)) : ij[1] < ij[2]}

Fresh(pt) == pt.age <= StalenessWindowMs

\* pairs of fresh price points from distinct venues
FreshDistinct ==
  {ij \in PairIndexes : /\ Fresh(prices[ij[1]]) /\ Fresh(prices[ij[2]])
                        /\ prices[ij[1]].exchange # prices[ij[2]].exchange}

\* the adjusted values as documented: buy = min * (1 + slippage),
\* sell = max * (1 - slippage), profit percent = num / den
Documented(pt1, pt2, tol) ==
  LET buy  == Min(pt1.price, pt2.price) * (10000 + tol)
      sell == Max(pt1.price, pt2.price) * (10000 - tol)
  IN [buyPrice |-> buy, sellPrice |-> sell,
      profitNum |-> (sell - buy) * 100, profitDen |-> buy]

DocumentedEmits(ij) ==
  LET d == Documented(prices[ij[1]], prices[ij[2]], slippageTolerance)
  IN d.profitNum * 100 >= minThreshold * d.profitDen

\* C12: for every pair of fresh price points from distinct venues an
\* Opportunity is emitted iff the profit percent computed from
\* buy = min * (1 + slippage) and sell = max * (1 - slippage) is >= the
\* configured minimum, and the emitted buyPrice, sellPrice and profitPercent
\* are exactly those adjusted values.
C12_EmitsIffAdjustedProfit ==
  found =>
    /\ Len(opportunities) = Cardinality({ij \in FreshDistinct : DocumentedEmits(ij)})
    /\ \A ij \in FreshDistinct :
         DocumentedEmits(ij) =>
           LET d == Documented(prices[ij[1]], prices[ij[2]], slippageTolerance)
           IN \E k \in 1..Len(opportunities) :
                /\ opportunities[k].buyPrice = d.buyPrice
                /\ opportunities[k].sellPrice = d.sellPrice
                /\ opportunities[k].profitNum * d.profitDen
                     = d.profitNum * opportunities[k].profitDen

\* the profit percent findArbitrageOpportunities computes for a pair under
\* slippage tol, as a fraction
ComputedProfit(ij, tol) ==
  PairOpportunity(prices[ij[1]], prices[ij[2]], tol, minThreshold).opp

\* C13: holding the two raw prices fixed, the profit percent computed for the
\* pair strictly decreases as the configured slippage increases (a NaN
\* compares false).
C13_ProfitDecreasesWithSlippage ==
  found =>
    \A ij \in FreshDistinct : \A s1 \in Slippages, s2 \in Slippages :
      s1 < s2 =>
        LET a == ComputedProfit(ij, s1)
            b == ComputedProfit(ij, s2)
        IN /\ a.profitDen > 0 /\ b.profitDen > 0
           /\ a.profitNum * b.profitDen > b.profitNum * a.profitDen

\* C14: every emitted Opportunity has buyExchange # sellExchange and
\* buyPrice <= sellPrice, and no opportunity is built from two price points
\* of the same venue, whatever their spread.
C14_DistinctVenuesOrdered ==
  found =>
    /\ \A k \in 1..Len(opportunities) :
         /\ opportunities[k].buyExchange # opportunities[k].sellExchange
         /\ opportunities[k].buyPrice <= opportunities[k].sellPrice
    /\ Len(opportunities) <=
         Cardinality({ij \in PairIndexes :
                        prices[ij[1]].exchange # prices[ij[2]].exchange})

\* two fresh points of one venue, 5 % apart, against a 0.5 % minimum: nothing
C14_Witness ==
  /\ found /\ Len(prices) = 2 /\ minThreshold = 50
  /\ prices[1].exchange = prices[2].exchange
  /\ Fresh(prices[1]) /\ Fresh(prices[2])
  /\ prices[1].price = 100 /\ prices[2].price = 105
  /\ opportunities = <<>>

\* C15: a pair in which either price point is more than the staleness window
\* (10 s) older than now yields no Opportunity, however large the spread.
C15_StalePairExcluded ==
  found =>
    Len(opportunities) <=
      Cardinality({ij \in PairIndexes :
                     Fresh(prices[ij[1]]) /\ Fresh(prices[ij[2]])})

\* one point just past the window, the other current, distinct venues, 5 %
\* apart against a 0.5 % minimum: nothing
C15_Witness ==
  /\ found /\ Len(prices) = 2 /\ minThreshold = 50 /\ slippageTolerance > 0
  /\ prices[1].exchange # prices[2].exchange
  /\ prices[1].age = 0 /\ prices[2].age = StalenessWindowMs + 1
  /\ prices[1].price = 100 /\ prices[2].price = 105
  /\ opportunities = <<>>

\* =============================================================== trader claims

Frame == <<balance, halted, dailyLoss, dailyLossReset, sellFailureCounts,
           trades, snapshot>>

\* C2: the buy leg is submitted only after both simulations of the same
\* executeTrade call have passed; when either simulation fails the call
\* returns null with no submission, and balance, RiskState and the ledger
\* are unchanged.
C2_SimulateBeforeBuy ==
  [][ /\ (call'.buySubmits > 0) =>
           (call'.buySimOk /\ call'.sellSimOk /\ call'.sims = 2)
      /\ (ev' = "SimulateSell" /\ ~(call.buySimOk /\ call'.sellSimOk)) =>
           /\ call'.pc = "idle" /\ call'.result = "null"
           /\ call'.buySubmits = 0 /\ call'.sellSubmits = 0
           /\ Frame' = Frame
    ]_vars

\* the buy simulation passed, the sell simulation failed, the call was skipped
C2_Witness ==
  /\ ev = "SimulateSell" /\ ~dryRun
  /\ call.buySimOk /\ ~call.sellSimOk /\ call.sims = 2
  /\ call.pc = "idle" /\ call.result = "null" /\ call.buySubmits = 0

AlertsFired(c) ==
  c.alerts.adaptive + c.alerts.partial + c.alerts.revert + c.alerts.discrepancy

PartialFailure(c) == c.result = "trade" /\ c.buyTx /\ ~c.sellTx

\* C3 (as claimed): a call that ends as a PartialFailure has fired exactly
\* one external alert.
C3_ExactlyOneAlert == PartialFailure(call) => AlertsFired(call) = 1

\* C3 (amended): when the buy succeeded and every sell attempt failed, the
\* trade is recorded with a buy reference and no sell reference, the
\* partial-trade alert was fired exactly once in that call (next to at most
\* one adaptive-threshold alert and at most one profit-discrepancy alert), and
\* the step that gives up the sell leg increases that pair's failure counter
\* by exactly 1, leaves every other pair's counter alone, and goes on to the
\* adaptive alert exactly when the counter has reached the failure threshold.
C3_PartialFailureHandled ==
  /\ [](PartialFailure(call) =>
          /\ call.alerts.partial = 1 /\ call.alerts.revert = 0
          /\ call.alerts.adaptive <= 1 /\ call.alerts.discrepancy <= 1
          /\ call.sellSubmits = sellRetryCount + 1
          /\ Len(trades) >= 1
          /\ trades[Len(trades)].pair = call.pair
          /\ trades[Len(trades)].buyTx /\ ~trades[Len(trades)].sellTx)
  /\ [][ (ev' = "SubmitSell" /\ call'.pc \in {"adaptiveAlert", "partialAlert"}) =>
           /\ sellFailureCounts'[call.pair] = sellFailureCounts[call.pair] + 1
           /\ \A p \in Pairs \ {call.pair} :
                sellFailureCounts'[p] = sellFailureCounts[p]
           /\ (call'.pc = "adaptiveAlert") <=>
                (sellFailureCounts[call.pair] + 1 >= failureThreshold)
       ]_vars

\* the third consecutive partial failure of a pair: recorded, both alerts sent
C3_Witness ==
  /\ PartialFailure(call)
  /\ call.alerts.partial = 1 /\ call.alerts.adaptive = 1
  /\ sellFailureCounts[call.pair] = failureThreshold
  /\ \E p \in Pairs : sellFailureCounts[p] = 0

\* C4: losses that sum to exactly the daily-loss limit set halted, and once
\* halted is set nothing (a profitable trade in particular) clears it.
C4_BreakerLatches ==
  /\ [](dailyLoss >= maxDailyLossUsd => halted)
  /\ [][halted => halted']_vars

\* the tally is exactly the limit, the breaker is set, and a profitable trade
\* has just been settled on the same UTC day
C4_Witness ==
  /\ halted /\ dailyLoss = maxDailyLossUsd /\ today < dailyLossReset
  /\ call.result = "trade" /\ call.realProfit > 0
  /\ ev \in {"SimulateSell", "SubmitSell", "NotifierSend"}

\* C5: when halted, executeTrade returns null before anything else: no quote,
\* simulation or submission, and balance, RiskState and the ledger unchanged.
C5_HaltedSkipsFirst ==
  [][ (ev' = "ExecuteTrade" /\ halted) =>
        /\ call'.pc = "idle" /\ call'.result = "null"
        /\ call'.quotes = 0 /\ call'.sims = 0
        /\ call'.buySubmits = 0 /\ call'.sellSubmits = 0
        /\ Frame' = Frame
    ]_vars

\* a halted engine has just skipped an opportunity it would otherwise size
C5_Witness ==
  /\ ev = "ExecuteTrade" /\ halted
  /\ call.pc = "idle" /\ call.result = "null" /\ call.quotes = 0
  /\ CalcTradeAmount(balance, [pair |-> call.pair, buyPrice |-> call.buyPrice,
                               sellPrice |-> call.sellPrice]) > 0

\* C11: an execution that has submitted the buy leg always runs its sell loop
\* to success or exhaustion and records its result, also when SIGINT or
\* SIGTERM arrives in the meantime: the process never ends while a committed
\* execution is still in flight.
C11_CommittedRunsToCompletion ==
  ~alive => ~(call.buyTx /\ call.pc # "idle")

\* consecutive partial failures of pair p at the end of the ledger, counted
\* back to the last trade of p whose sell leg went through
RECURSIVE Streak(_, _)
Streak(ts, p) ==
  IF ts = <<>> THEN 0
  ELSE LET t    == ts[Len(ts)]
           rest == SubSeq(ts, 1, Len(ts) - 1)
       IN IF t.pair # p THEN Streak(rest, p)
          ELSE IF t.sellTx THEN 0
          ELSE 1 + Streak(rest, p)

\* C16: between executions each pair's counter is its number of consecutive
\* partial failures (counted in the ledger as long as the wallet auto-sell
\* has sold nothing); the profit check of a call on a pair requires the raised
\* value exactly when the counter is >= failureThreshold and the configured
\* default otherwise; a sell success, of executeTrade or of the auto-sell, sets
\* the pair's counter to 0, which puts its threshold back to the default, and
\* leaves every other pair's counter alone.
C16_AdaptiveThreshold ==
  /\ [](call.pc = "idle" /\ sweepSends = 0 =>
          \A p \in Pairs : sellFailureCounts[p] = Streak(trades, p))
  /\ [][ /\ (ev' = "GetSellQuote" /\ call'.required # 0) =>
              /\ call'.required =
                   IF sellFailureCounts[call.pair] >= failureThreshold
                     THEN raisedMinProfitPct ELSE minProfitPercent
              /\ sweepSends = 0 =>
                   call'.required =
                     IF Streak(trades, call.pair) >= failureThreshold
                       THEN raisedMinProfitPct ELSE minProfitPercent
         /\ (ev' = "AutoSell") =>
              \A p \in Pairs :
                \/ sellFailureCounts'[p] = sellFailureCounts[p]
                \/ sellFailureCounts'[p] = 0 /\ sweepSends' > sweepSends
         /\ (ev' = "SubmitSell" /\ call'.sellTx) =>
              /\ sellFailureCounts'[call.pair] = 0
              /\ GetEffectiveMinProfitPercent(sellFailureCounts', call.pair)
                   = minProfitPercent
              /\ \A p \in Pairs \ {call.pair} :
                   sellFailureCounts'[p] = sellFailureCounts[p]
       ]_vars

\* the call after failureThreshold partial failures of a pair was checked
\* against the raised value, its sell went through, the counter is back at 0
C16_Witness ==
  /\ call.pc = "idle" /\ call.result = "trade" /\ call.sellTx /\ ~dryRun
  /\ call.required = raisedMinProfitPct
  /\ Len(trades) = failureThreshold + 1
  /\ sellFailureCounts[call.pair] = 0

\* C17: whenever the adaptive override is active for a pair, that pair's
\* effective minimum profit threshold is strictly higher than the configured
\* default, under the shipped configuration.
C17_RaisedAboveDefault ==
  \A p \in Pairs :
    sellFailureCounts[p] >= failureThreshold =>
      GetEffectiveMinProfitPercent(sellFailureCounts, p) > minProfitPercent

\* C18: when the buy submission fails the call returns null: no sell leg is
\* ever submitted without a confirmed buy, and balance, RiskState and the
\* ledger are unchanged.
C18_BuyFailureAborts ==
  /\ [](call.sellSubmits > 0 => call.buyTx)
  /\ [][ (ev' = "SubmitBuy" /\ ~call'.buyTx) =>
           /\ call'.pc = "idle" /\ call'.result = "null"
           /\ call'.sellSubmits = 0
           /\ Frame' = Frame
       ]_vars

\* the buy was submitted and failed, the call has returned null
C18_Witness ==
  /\ ev = "SubmitBuy" /\ ~dryRun
  /\ call.buySubmits = 1 /\ ~call.buyTx /\ call.sellSubmits = 0
  /\ call.pc = "idle" /\ call.result = "null"

\* C19: the sell transactions one execution sends to the network never
\* exceed the retry budget of sellRetryCount + 1.
C19_SellSendsWithinBudget == call.sellSends <= sellRetryCount + 1

\* C20: the buy is submitted (or the trade settled) only after both live
\* quotes were obtained and the profit recomputed from them is positive and,
\* as a fraction of the buy amount, >= the pair's effective minimum; otherwise
\* the call returns null with no submission and nothing changed.
C20_SubmitOnlyIfQuotesProfitable ==
  [][ /\ (call'.buySubmits > 0 \/ call'.result = "trade") =>
           /\ call'.quotes = 2
           /\ call'.realProfit > 0
           /\ call'.required \in {minProfitPercent, raisedMinProfitPct}
           /\ call'.realProfit * 10000 >= call'.required * call'.amount
      /\ (/\ ev' = "GetSellQuote" /\ call'.required # 0
          /\ \/ call'.realProfit <= 0
             \/ call'.realProfit * 10000 < call'.required * call'.amount) =>
           /\ call'.pc = "idle" /\ call'.result = "null"
           /\ call'.sims = 0 /\ call'.buySubmits = 0 /\ call'.sellSubmits = 0
           /\ Frame' = Frame
    ]_vars

\* both quotes came back with a positive profit of 1.2 %, below the default
\* 1.67 %: the call was skipped
C20_Witness ==
  /\ ev = "GetSellQuote" /\ ~dryRun
  /\ call.quotes = 2 /\ call.realProfit = 120 /\ call.amount = maxTradeAmountUsd
  /\ call.required = minProfitPercent
  /\ call.pc = "idle" /\ call.result = "null" /\ call.buySubmits = 0

\* C21: the size executeTrade uses is min(max trade USD, 95 % of the balance);
\* when the profit estimated at that size is below the absolute floor the call
\* returns null with nothing touched; every call that goes on has
\* 0 < size <= max trade USD and size <= 0.95 * balance.
C21_TradeSizing ==
  /\ [][ (ev' = "ExecuteTrade" /\ ~halted) =>
           LET size == Min(maxTradeAmountUsd, (balance * 95) \div 100)
           IN IF size * (call'.sellPrice - call'.buyPrice)
                   < minProfitAbsolute * call'.buyPrice
                THEN /\ call'.pc = "idle" /\ call'.result = "null"
                     /\ call'.quotes = 0 /\ call'.sims = 0
                     /\ call'.buySubmits = 0 /\ call'.sellSubmits = 0
                     /\ Frame' = Frame
                ELSE /\ call'.pc = "gas" /\ call'.amount = size
       ]_vars
  /\ [](call.pc # "idle" =>
          /\ 0 < call.amount /\ call.amount <= maxTradeAmountUsd
          /\ call.amount * 100 <= balance * 95)

\* a balance of $4 sizes a 5 % opportunity at $3.80, below the hard cap
C21_Witness ==
  /\ ev = "ExecuteTrade" /\ call.pc = "gas"
  /\ balance = 4000 /\ call.amount = 3800 /\ call.sellPrice = 105

\* C22: when the wallet holds less SOL than the gas reserve plus what the
\* trade consumes, executeTrade returns null: nothing is simulated or
\* submitted, and balance, RiskState and the ledger are unchanged.  With a
\* SOL price of 0 the trade's SOL amount is not a number: the call then ends
\* at the gas check or at the buy quote.
C22_GasReserveShortSkips ==
  /\ [][ (/\ ev' = "AssertGasReserve" /\ solPriceUsd > 0
           /\ walletSol * solPriceUsd < solGasReserve * solPriceUsd + call.amount) =>
           /\ call'.pc = "idle" /\ call'.result = "null"
           /\ call'.quotes = 0 /\ call'.sims = 0
           /\ call'.buySubmits = 0 /\ call'.sellSubmits = 0
           /\ Frame' = Frame
       ]_vars
  /\ [][ (solPriceUsd = 0 /\ ev' \in {"AssertGasReserve", "GetBuyQuote"}) =>
           /\ call'.pc \in {"idle", "buyQuote"}
           /\ call'.pc = "idle" => call'.result = "null"
           /\ call'.sims = 0 /\ call'.buySubmits = 0 /\ call'.sellSubmits = 0
           /\ Frame' = Frame
       ]_vars
  /\ [](solPriceUsd = 0 => call.pc \in {"idle", "gas", "buyQuote"} /\ trades = <<>>)

\* 0.109 SOL in the wallet, 0.01 SOL reserve, a $10 trade at $100 per SOL
\* needs 0.11 SOL: the call was skipped at the gas check
C22_Witness ==
  /\ ev = "AssertGasReserve" /\ ~dryRun
  /\ walletSol = 109 /\ solPriceUsd = 100 /\ call.amount = maxTradeAmountUsd
  /\ call.pc = "idle" /\ call.result = "null" /\ call.quotes = 0

\* C23: a halted engine skips executeTrade only until the next UTC midnight:
\* once the day boundary has passed, a call on an opportunity it would size is
\* processed again (it goes on to the gas check) and the breaker is open.
C23_HaltLiftedAfterMidnight ==
  [][ (/\ ev' = "ExecuteTrade" /\ halted /\ today >= dailyLossReset
       /\ CalcTradeAmount(balance, [pair |-> call'.pair,
                                    buyPrice |-> call'.buyPrice,
                                    sellPrice |-> call'.sellPrice]) > 0) =>
        (call'.pc = "gas" /\ ~halted')
    ]_vars

\* C24: a trade that loses money lowers the running balance and adds its loss
\* to dailyLoss; such trades occur through executeTrade, as when the buy leg
\* is filled and no sell leg ever is.
C24_LosingTradeFeedsBreaker ==
  [][ (/\ call'.result = "trade" /\ call.pc # "idle" /\ call'.pc = "idle"
       /\ call'.buyTx /\ ~call'.sellTx) =>
        (balance' < balance /\ dailyLoss' > 0)
    ]_vars

\* C28: no single failure inside a scan stops the scheduler: a scan that ends
\* by an error leaves the process running, and once every scan has ended,
\* normally or by an error, the scan-in-progress flag is false, so that later
\* triggers can start scans.
C28_ScanEndClearsFlag ==
  /\ ev = "ScanThrow" => alive
  /\ (alive /\ TotalInFlight = 0) => ~scanning

\* C29: in dry-run mode no transaction is ever sent to the network, neither
\* by executeTrade (buy or sell leg) nor by the wallet auto-sell.
C29_DryRunSendsNothing ==
  dryRun =>
    /\ sweepSends = 0
    /\ call.buySubmits = 0 /\ call.sellSubmits = 0 /\ call.sellSends = 0
    /\ \A i \in 1..Len(trades) : trades[i].simulated

\* in dry-run mode a trade was settled and the auto-sell then ran over a
\* sellable residual with the gas reserve in place
C29_Witness ==
  /\ dryRun /\ ev = "AutoSell"
  /\ residualSol * solPriceUsd >= dustUsd /\ walletSol >= solGasReserve
  /\ call.result = "trade" /\ Len(trades) >= 1

\* C30: when the sell leg succeeds the pair's consecutive-failure counter
\* becomes 0, and the "threshold reverted" notice follows exactly when the
\* counter had reached failureThreshold before the success.
C30_RevertNoticeIffRaised ==
  [][ (ev' = "SubmitSell" /\ call'.sellTx) =>
        /\ sellFailureCounts'[call.pair] = 0
        /\ (call'.pc = "revertAlert") <=>
             (sellFailureCounts[call.pair] >= failureThreshold)
    ]_vars

\* =============================================================== price sources

\* C27: within one scan the opportunities handed to executeTrade are the top
\* 3 by profit percent, in non-increasing profit order, and each call has
\* returned before the next one begins.
C27_TopThreeSequential ==
  /\ [](LET handed == tradeLoop.handed
            scanned == tradeLoop.found
        IN /\ tradeLoop.executing <= 1
           /\ Len(handed) <= 3
           /\ \A i, j \in 1..Len(handed) :
                /\ i < j => handed[i].profitPercent >= handed[j].profitPercent
                /\ i # j => handed[i].id # handed[j].id
           /\ \A i \in 1..Len(handed) :
                /\ handed[i].id \in 1..Len(scanned)
                /\ scanned[handed[i].id] = handed[i]
           /\ tradeLoop.pc = "done" =>
                /\ Len(handed) = Min(3, Len(scanned))
                /\ \A k \in 1..Len(scanned), i \in 1..Len(handed) :
                     (\A j \in 1..Len(handed) : handed[j].id # k) =>
                       scanned[k].profitPercent <= handed[i].profitPercent)
  /\ [][tradeLoop'.executing > tradeLoop.executing =>
          tradeLoop.executing = 0]_vars

\* four opportunities found in ascending profit order: the best three were
\* handed over, best first, and the worst was left out
C27_Witness ==
  /\ tradeLoop.pc = "done" /\ tradeLoop.executing = 0
  /\ Len(tradeLoop.found) = 4 /\ Len(tradeLoop.handed) = 3
  /\ tradeLoop.found[1].profitPercent = 170
  /\ tradeLoop.found[2].profitPercent = 200
  /\ tradeLoop.found[3].profitPercent = 200
  /\ tradeLoop.found[4].profitPercent = 300
  /\ tradeLoop.handed[1].id = 4
  /\ tradeLoop.handed[2].id = 2
  /\ tradeLoop.handed[3].id = 3

\* C25: fetchAllPrices never throws for a remote failure of the primary or
\* the secondary source; it returns a list (empty when every request failed)
\* made of points the sources did deliver.
C25_FetchNeverThrows ==
  fetch.state = "done" =>
    /\ ~fetch.threw
    /\ \A i \in 1..Len(fetch.prices) :
         \/ \E k \in 1..3 : /\ fetch.replies[k] = "quote"
                             /\ fetch.prices[i].exchange = TARGET_DEXES[k]
         \/ \E k \in 1..Len(fetch.secondary.pools) :
              fetch.prices[i] = fetch.secondary.pools[k]
    /\ ((\A k \in 1..3 : fetch.replies[k] # "quote") /\ ~fetch.secondary.ok) =>
         fetch.prices = <<>>

\* every request of both sources failed, the result is the empty list
C25_Witness ==
  /\ fetch.state = "done" /\ ~fetch.threw
  /\ \A k \in 1..3 : fetch.replies[k] = "error"
  /\ ~fetch.secondary.ok
  /\ fetch.prices = <<>>

\* C26: fetchAllPrices returns the primary result exactly when it holds points
\* of at least two distinct venues; otherwise exactly the secondary points
\* with liquidity >= 10,000 USD and 24h volume >= 500 USD.
C26_PrimaryOrFilteredSecondary ==
  fetch.state = "done" =>
    LET jupPrices == GetPrices(fetch.replies)
        venues    == {jupPrices[i].exchange : i \in 1..Len(jupPrices)}
        AtLeast(priceData) == /\ priceData.liquidity >= minLiquidityUsd
                              /\ priceData.volume24h >= minVolume24hUsd
    IN IF Cardinality(venues) >= 2
         THEN fetch.prices = jupPrices
         ELSE fetch.prices = SelectSeq(fetch.secondary.pools, AtLeast)

\* ============================================================ scan cooldown

\* C31: lastScanAt is assigned when a scan returns, for every scan whatever
\* triggered it, and at no other moment; so a dropped trigger leaves it
\* unchanged, and no push-triggered scan starts right after a scan returned.
C31_LastScanAtSetAtReturn ==
  [][ /\ (ev' = "ScanReturn") => (sinceLastScan' = 0)
      /\ (ev' # "Tick" /\ sinceLastScan' # sinceLastScan) => (ev' = "ScanReturn")
      /\ (ev' = "DebounceFire" /\ inflight' = inflight) =>
           (sinceLastScan' = sinceLastScan)
      /\ (ev = "ScanReturn" /\ ev' = "DebounceFire") => (inflight' = inflight)
    ]_vars

\* ===================================================== the outcome of a call

\* the row recordTrade wrote last is the one of the call that just ended, and
\* the balance snapshot counts it
C32_Persisted ==
  /\ trades # <<>>
  /\ trades[Len(trades)] =
       [pair |-> call.pair, amount |-> call.amount, profitUsd |-> call.realProfit,
        buyTx |-> call.buyTx, sellTx |-> call.sellTx, simulated |-> dryRun]
  /\ snapshot.totalTrades = Len(trades)

\* the call got past the preconditions, the profit gate and both simulations
C32_SimulationsPassed ==
  call.sims = 2 /\ SimulationsPassed(call.buySimOk, call.sellSimOk)

\* C32 (as claimed): a call whose preconditions passed, whose live quotes
\* cleared the effective threshold and whose two simulations passed has
\* submitted the buy leg and ends with a persisted Completed or
\* PartialFailure result (stated for the engine trading live).
C32_PassedCallEndsPersisted ==
  (~dryRun /\ C32_SimulationsPassed /\ call.pc = "idle") =>
    /\ call.buySubmits = 1
    /\ call.result = "trade"
    /\ C32_Persisted

\* C32 (amended): such a call goes on to submit the buy leg when the engine
\* trades live; if the buy is confirmed it ends with a persisted Completed or
\* PartialFailure result, if the buy fails it ends with no result and no sell
\* attempt; in dry-run mode it submits nothing and persists a simulated
\* Completed result.
C32_PassedCallOutcome ==
  C32_SimulationsPassed =>
    /\ (~dryRun /\ call.pc # "buy") => call.buySubmits = 1
    /\ call.pc = "idle" =>
         IF dryRun
           THEN /\ call.buySubmits = 0 /\ call.sellSubmits = 0
                /\ call.result = "trade" /\ C32_Persisted
           ELSE IF call.buyTx
                  THEN /\ call.result = "trade" /\ C32_Persisted
                       /\ call.sellTx \/ call.attemptSell = sellRetryCount + 1
                  ELSE call.result = "null" /\ call.sellSubmits = 0

\* a live call has ended Completed: both legs confirmed, the trade persisted
C32_Witness ==
  /\ ~dryRun /\ C32_SimulationsPassed
  /\ call.pc = "idle" /\ call.result = "trade"
  /\ call.buyTx /\ call.sellTx /\ call.buySubmits = 1
  /\ C32_Persisted

\* ============================================================ near-miss alert

\* the pairs of price points the double loop of findArbitrageOpportunities
\* does not skip
C33_Eligible ==
  {ij \in (1..Len(prices)) \X (1..Len(prices)) :
     /\ ij[1] < ij[2]
     /\ ~TooOld(prices[ij[1]], prices[ij[2]])
     /\ ~SameExchange(prices[ij[1]], prices[ij[2]])}

\* the raw spread of a pair, in 1/100 of a percent, is at least t
C33_SpreadAtLeast(ij, t) ==
  LET lo == Min(prices[ij[1]].price, prices[ij[2]].price)
      hi == Max(prices[ij[1]].price, prices[ij[2]].price)
  IN (hi - lo) * 10000 >= t * lo

\* the largest raw spread over the eligible pairs is below the threshold and
\* at most the margin below it
C33_IsNearMiss ==
  /\ \A ij \in C33_Eligible : ~C33_SpreadAtLeast(ij, minThreshold)
  /\ \E ij \in C33_Eligible : C33_SpreadAtLeast(ij, minThreshold - nearMissMargin)

\* C33: with a webhook configured, findArbitrageOpportunities sends exactly
\* one near-miss alert when the largest raw spread over the eligible pairs is
\* below the minimum threshold but within 0.2 percentage points of it, and
\* still returns its opportunity list; otherwise it sends none.
C33_NearMissAlertsOnce ==
  (found /\ nearMiss.webhook) =>
    IF C33_IsNearMiss
      THEN /\ nearMiss.posts = 1
           /\ ~nearMiss.threw
           /\ opportunities =
                FindFrom(prices, 1, 2, slippageTolerance, minThreshold)
      ELSE nearMiss.posts = 0 /\ ~nearMiss.threw

\* ================================================================ quote cache

\* C34: a getPrices call made within the TTL of the token's cached fetch
\* returns the cached list and sends no quote request; a call made once the
\* TTL has expired, or after invalidateAll, sends the quote requests again;
\* storing a fetch leaves the entries of the other tokens as they were.
C34_CacheTtlAndClear ==
  [][ /\ (ev' = "GetPricesCall" /\ GetTokenMint(jupCache'.last.token)) =>
           LET t == jupCache'.last.token
               e == jupCache.cache[t]
           IN /\ (e.ts >= 0 /\ e.ts < CACHE_TTL_MS /\ ~jupCache.cleared[t]) =>
                   /\ jupCache'.last.hit /\ ~jupCache'.last.queried
                   /\ jupCache'.last.prices = e.prices
                   /\ jupCache'.inflight = jupCache.inflight
              /\ (e.ts >= CACHE_TTL_MS \/ jupCache.cleared[t]) =>
                   /\ jupCache'.last.queried
                   /\ jupCache'.inflight[t] = jupCache.inflight[t] + 1
      /\ (ev' = "GetPricesSettle") =>
           \E t \in CacheTokens :
             \A u \in CacheTokens \ {t} : jupCache'.cache[u] = jupCache.cache[u]
    ]_vars

\* ============================================================ ledger counters

RECURSIVE C35_SumProfit(_)
C35_SumProfit(ts) ==
  IF ts = <<>> THEN 0 ELSE ts[1].profitUsd + C35_SumProfit(Tail(ts))

\* C35: every trade executeTrade returns writes one trade row and one balance
\* row whose counters are those of the latest balance row plus this trade
\* (totalTrades + 1, winningTrades + 1 for a positive profit, totalProfit +
\* the profit), and nothing else writes them; so under overlapping
\* invocations the latest balance row counts every trade row.
C35_CountersFromLatestSnapshot ==
  [][ /\ (ev' = "LedgerSettle") =>
           /\ Len(trades') = Len(trades) + 1
           /\ trades'[Len(trades')].profitUsd = call'.realProfit
           /\ snapshot'.totalTrades = snapshot.totalTrades + 1
           /\ snapshot'.winningTrades =
                snapshot.winningTrades + (IF call'.realProfit > 0 THEN 1 ELSE 0)
           /\ snapshot'.totalProfit = snapshot.totalProfit + call'.realProfit
      /\ (ev' # "LedgerSettle") => (trades' = trades /\ snapshot' = snapshot)
      /\ snapshot'.totalTrades = Len(trades')
      /\ snapshot'.winningTrades =
           Cardinality({k \in 1..Len(trades') : trades'[k].profitUsd > 0})
      /\ snapshot'.totalProfit = C35_SumProfit(trades')
    ]_vars

\* two invocations that were both at their await before either wrote have
\* both returned their trade
C35_Witness ==
  /\ ev = "LedgerSettle"
  /\ Len(overlap) = 2 /\ Len(trades) = 2
  /\ \A i \in 1..2 : overlap[i].pc = "trade" /\ overlap[i].seen.totalTrades = 0
  /\ snapshot.totalTrades = 2
  /\ snapshot.totalProfit = trades[1].profitUsd + trades[2].profitUsd

\* ============================================================ daily loss tally

\* C36: a loss-recording call that finds the reset boundary passed starts the
\* tally again from 0 (the tally is then just its own loss) and moves the
\* boundary to the following midnight; any other loss-recording call adds to
\* the tally of the current day; nothing else changes tally or boundary.  So
\* a recorded tally never holds a loss of a previous UTC day.
C36_LazyDailyReset ==
  [][ /\ (ev' = "RecordLoss") =>
           IF today >= dailyLossReset
             THEN /\ dailyLoss' \in LossAmounts
                  /\ dailyLossReset' = today + 1
             ELSE /\ (dailyLoss' - dailyLoss) \in LossAmounts
                  /\ dailyLossReset' = dailyLossReset
                  /\ dailyLossReset = today + 1
      /\ (ev' # "RecordLoss") =>
           (dailyLoss' = dailyLoss /\ dailyLossReset' = dailyLossReset)
    ]_vars

\* the first loss of a new day was just recorded: the tally is that loss
\* alone, though the breaker still shows that the previous day's tally had
\* reached the limit
C36_Witness ==
  /\ ev = "RecordLoss" /\ today = 1 /\ dailyLossReset = 2
  /\ dailyLoss = 1000 /\ halted


\* ---------------------------------------------------- the auto-sweep's floors

C38_SweepLeavesOpenTradeAlone ==
  [][
     /\ ev' = "AutoSell" => sellFailureCounts' = sellFailureCounts
     /\ (call.pc = "sell" /\ call.buyTx
           /\ sellFailureCounts'[call.pair] # sellFailureCounts[call.pair])
          => ev' = "SubmitSell"
    ]_vars


\* ------------------------------------------------ buy transactions of a call

\* C39: within one execute call at most one buy transaction is handed to the
\* network: a buy that was sent and then not confirmed is not followed by a
\* second, newly built buy transaction
C39_AtMostOneBuySent == swap.buySent <= 1


\* ------------------------------------------------ booking a partial failure

\* C40: the step that ends an execute call as a PartialFailure (buy
\* confirmed, every sell attempt failed) does not raise the running balance
\* and leaves the ledger's winningTrades and totalProfit as they were
C40_PartialFailureNotCredited ==
  [][ (call.pc # "idle" /\ call'.pc = "idle" /\ PartialFailure(call')) =>
        /\ balance' <= balance
        /\ snapshot'.winningTrades = snapshot.winningTrades
        /\ snapshot'.totalProfit = snapshot.totalProfit
    ]_vars

====
